---- MODULE Spec2Model ----
(***************************************************************************)
(* A model of the graph engine of backend/game: Node (node.py), the        *)
(* NodeNetwork container (node.py) and the GeoLocation distance            *)
(* (geoLocation.py).                                                       *)
(*                                                                         *)
(* A Python dict keeps insertion order, so a dict keyed by node id is      *)
(* modelled as a sequence of node objects with pairwise distinct ids: the  *)
(* key of an entry is IdOf of the object, `d[k] = v` on a new key appends, *)
(* `del d[k]` removes the entry and keeps the order of the others.         *)
(***************************************************************************)
EXTENDS Integers, Sequences, FiniteSets, TLC

VARIABLES
    nodes,        \* NodeNetwork.nodes: dict id -> Node
    connections,  \* Node.connections of every node object: dict id -> Node
    lastOp,       \* the last mutating call, its arguments and its return value
    query,        \* the last query or builder call, its arguments and its result
    gen           \* the run of generate_network: its arguments, locals and position

vars == <<nodes, connections, lastOp, query, gen>>

----------------------------------------------------------------------------
(* Bounds of the model *)

\* connect_to is not offered to the network's callers once this many adjacency
\* entries exist
MaxEdges == 3

\* the largest number of adjacency entries of a graph the path queries run on
MaxPathEdges == 4

----------------------------------------------------------------------------
(* Node objects.  Node.__init__ (node.py 18-35): an id, a location, an      *)
(* empty connections dict.  n1b is a second object built with n1's id      *)
(* (Node(loc, name, node_id) as in test_node_equality).                    *)

NodeObjs == {"n1", "n2", "n3", "n4"}

DupObjs == {"n1b"}

\* a fifth node, for the networks in which a node has more than three neighbours
MoreObjs == {"n5"}

\* a sixth node, opposite n3 on the equator and so as far from n2 as from n4
TieObjs == {"n6"}

\* the Node objects generate_network builds, in the order it builds them
GenNames == <<"g1", "g2", "g3", "g4", "g5", "g6", "g7", "g8">>

GenObjs == {GenNames[i] : i \in DOMAIN GenNames}

\* the Node objects create_grid_network builds: GridNames[i + 1][j + 1] is the
\* node of row i and column j, named by its name f"Grid_{i}_{j}"
GridNames ==
    << <<"Grid_0_0", "Grid_0_1", "Grid_0_2", "Grid_0_3">>,
       <<"Grid_1_0", "Grid_1_1", "Grid_1_2", "Grid_1_3">>,
       <<"Grid_2_0", "Grid_2_1", "Grid_2_2", "Grid_2_3">>,
       <<"Grid_3_0", "Grid_3_1", "Grid_3_2", "Grid_3_3">> >>

GridObjs == {GridNames[i][j] : i \in DOMAIN GridNames, j \in DOMAIN GridNames[1]}

\* the uuid4 of a grid node: different from every other id
GridIds ==
    [o \in GridObjs |->
        CHOOSE k \in 101..404 :
            \E i \in DOMAIN GridNames : \E j \in DOMAIN GridNames[i] :
                GridNames[i][j] = o /\ k = 100 * i + j]

GridId(o) == GridIds[o]

\* the objects built by the callers of the network operations and the queries;
\* `connections` holds the adjacency of these, `gen` that of GenObjs
AllObjs == NodeObjs \cup DupObjs \cup MoreObjs \cup TieObjs

\* the objects the network operations are called with
NetObjs == {"n1", "n2", "n3"}

IdOf(o) ==
    CASE o = "n1" -> 1
      [] o = "n2" -> 2
      [] o = "n3" -> 3
      [] o = "n4" -> 4
      [] o = "n1b" -> 1
      [] o = "n5" -> 5
      [] o = "n6" -> 6
      [] o = "g1" -> 11
      [] o = "g2" -> 12
      [] o = "g3" -> 13
      [] o = "g4" -> 14
      [] o = "g5" -> 15
      [] o = "g6" -> 16
      [] o = "g7" -> 17
      [] o = "g8" -> 18
      [] o \in GridObjs -> GridId(o)

\* Node.__eq__: equality by id alone
NodeEq(a, b) == IdOf(a) = IdOf(b)

\* GeoLocation(latitude, longitude) the node objects of AllObjs are built
\* with: points of the equator on both sides of the dateline, at even distances
InitialLocation(o) ==
    CASE o = "n1" -> [latitude |-> 0, longitude |-> 170]
      [] o = "n2" -> [latitude |-> 0, longitude |-> 180]
      [] o = "n3" -> [latitude |-> 0, longitude |-> -160]
      [] o = "n4" -> [latitude |-> 0, longitude |-> -140]
      [] o = "n1b" -> [latitude |-> 0, longitude |-> 170]
      [] o = "n5" -> [latitude |-> 0, longitude |-> -120]
      [] o = "n6" -> [latitude |-> 0, longitude |-> 20]

\* Node.location: set by the constructor; generate_network builds its nodes at
\* the locations it computes
LocationOf(o) == IF o \in GenObjs THEN gen.location[o] ELSE InitialLocation(o)

Abs(x) == IF x < 0 THEN -x ELSE x

(* Lines 39-45 for two points of one great circle that lie `angle` degrees *)
(* apart along it: a = sin(angle/2)^2 and c = 2*asin(sqrt(a)), in degrees  *)
(* the angle folded into [0, 180]: the same for angle, -angle and          *)
(* angle + 360.                                                            *)
Haversine(angle) ==
    LET m == Abs(angle) % 360
    IN  IF m <= 180 THEN m ELSE 360 - m

\* get_distance_to_point that takes half a turn off a wide longitude difference
get_distance_to_point_HalfTurn(self, other_location) ==
    LET lon_diff0 == other_location.longitude - self.longitude
        lon_diff == IF lon_diff0 > 180 THEN lon_diff0 - 180
                    ELSE IF lon_diff0 < -180 THEN lon_diff0 + 180
                    ELSE lon_diff0
    IN  Haversine(lon_diff)

(* GeoLocation.get_distance_to_point.  The longitude difference is wrapped  *)
(* as in lines 21-27.  The haversine of lines 39-45 has an integer value   *)
(* for two points of the equator (a = sin(lon_diff/2)^2) and for two       *)
(* points of one meridian (a = sin(lat_diff/2)^2), which is what the model *)
(* computes, in degrees without the rounding of the floats; any other pair *)
(* of locations has no value here.                                         *)
get_distance_to_point(self, other_location) ==
    LET lat_diff == other_location.latitude - self.latitude
        lon_diff0 == other_location.longitude - self.longitude
        lon_diff == IF lon_diff0 > 180 THEN lon_diff0 - 360
                    ELSE IF lon_diff0 < -180 THEN lon_diff0 + 360
                    ELSE lon_diff0
    IN  CASE self.latitude = 0 /\ other_location.latitude = 0 -> Haversine(lon_diff)
          [] lon_diff = 0 -> Haversine(lat_diff)

\* Node.get_distance_to
get_distance_to(self, other_node) ==
    get_distance_to_point(LocationOf(self), LocationOf(other_node))

\* get_travel_time_to that forgets the speed
get_travel_time_to_NoSpeed(self, other_node, speed) ==
    get_distance_to(self, other_node)

(* Node.get_travel_time_to: distance / speed, for a speed other than 0 (the *)
(* division by 0 is raised where the call is made).  The distances of the  *)
(* modelled locations are even and the modelled speeds are 1, 2 and -1, so *)
(* the quotient is an integer and the float division is exact.             *)
get_travel_time_to(self, other_node, speed) ==
    LET distance == get_distance_to(self, other_node)
    IN  IF speed > 0 THEN distance \div speed ELSE -(distance \div (-speed))

----------------------------------------------------------------------------
(* dict operations *)

Keys(d) == {IdOf(d[i]) : i \in DOMAIN d}

HasKey(d, k) == k \in Keys(d)

\* d[k] for a key that is present
Lookup(d, k) == d[CHOOSE i \in DOMAIN d : IdOf(d[i]) = k]

\* d[IdOf(o)] = o
DictSet(d, o) ==
    IF HasKey(d, IdOf(o))
    THEN [i \in DOMAIN d |-> IF IdOf(d[i]) = IdOf(o) THEN o ELSE d[i]]
    ELSE Append(d, o)

\* del d[k]
DictDel(d, k) == SelectSeq(d, LAMBDA o : IdOf(o) # k)

----------------------------------------------------------------------------
(* Node.connect_to / Node.disconnect_from on the connections of all nodes; *)
(* the result is the return value and the new connections.                 *)

\* connect_to without the `other_node.id in self.connections` early return
connect_to_NoExistsCheck(conns, self, other, bidirectional) ==
    LET c1 == [conns EXCEPT ![self] = DictSet(@, other)]
        c2 == IF bidirectional /\ ~HasKey(c1[other], IdOf(self))
              THEN [c1 EXCEPT ![other] = DictSet(@, self)]
              ELSE c1
    IN  [ret |-> TRUE, conns |-> c2]

connect_to(conns, self, other, bidirectional) ==
    IF HasKey(conns[self], IdOf(other))
    THEN [ret |-> FALSE, conns |-> conns]
    ELSE LET c1 == [conns EXCEPT ![self] = DictSet(@, other)]
             c2 == IF bidirectional /\ ~HasKey(c1[other], IdOf(self))
                   THEN [c1 EXCEPT ![other] = DictSet(@, self)]
                   ELSE c1
         IN  [ret |-> TRUE, conns |-> c2]

\* disconnect_from that never removes the back reference
disconnect_from_NoBackRef(conns, self, other, bidirectional) ==
    IF ~HasKey(conns[self], IdOf(other))
    THEN [ret |-> FALSE, conns |-> conns]
    ELSE [ret |-> TRUE, conns |-> [conns EXCEPT ![self] = DictDel(@, IdOf(other))]]

disconnect_from(conns, self, other, bidirectional) ==
    IF ~HasKey(conns[self], IdOf(other))
    THEN [ret |-> FALSE, conns |-> conns]
    ELSE LET c1 == [conns EXCEPT ![self] = DictDel(@, IdOf(other))]
             c2 == IF bidirectional /\ HasKey(c1[other], IdOf(self))
                   THEN [c1 EXCEPT ![other] = DictDel(@, IdOf(self))]
                   ELSE c1
         IN  [ret |-> TRUE, conns |-> c2]

\* the number of adjacency entries of all node objects
NumEdges(conns) ==
    Len(conns["n1"]) + Len(conns["n2"]) + Len(conns["n3"]) + Len(conns["n4"])
        + Len(conns["n1b"]) + Len(conns["n5"]) + Len(conns["n6"])

\* get_connected_nodes that yields the first connection only
get_connected_nodes_FirstOnly(conns, self) ==
    IF conns[self] = <<>> THEN <<>> ELSE <<Head(conns[self])>>

\* Node.get_connected_nodes: list(self.connections.values())
get_connected_nodes(conns, self) == conns[self]

\* Node.is_connected_to
is_connected_to(conns, self, other) == HasKey(conns[self], IdOf(other))

----------------------------------------------------------------------------
(* Node.find_path_to (node.py 126-177).                                    *)
(*                                                                         *)
(* `unvisited` is the heapq list of tuples (distance, id, node); heappop   *)
(* takes the least tuple, compared by distance and then by id.  Two        *)
(* entries never agree on both, because an id is pushed again only with a  *)
(* strictly smaller distance (line 172), so the node is never compared.    *)
(* `distances` and `previous` are dicts keyed by id: functions on the ids  *)
(* set so far.  The result counts the heappops (`pops`) and the neighbours *)
(* the for loop looked at (`examined`).                                    *)

HeapEntry(distance, node) == [distance |-> distance, id |-> IdOf(node), node |-> node]

\* tuple comparison of two heap entries
EntryLess(e1, e2) ==
    \/ e1.distance < e2.distance
    \/ e1.distance = e2.distance /\ e1.id < e2.id

\* the position heapq.heappop takes: the least entry
HeapMinIndex(heap) ==
    CHOOSE i \in DOMAIN heap : \A j \in DOMAIN heap : j = i \/ ~EntryLess(heap[j], heap[i])

RemoveAt(seq, i) == [j \in 1..(Len(seq) - 1) |-> IF j < i THEN seq[j] ELSE seq[j + 1]]

\* the test of line 172 without its second half: a distance is never improved
ShouldRelax_FirstOnly(distances, id, new_distance) ==
    id \notin DOMAIN distances

\* line 172: neighbor.id not in distances or new_distance < distances[neighbor.id]
ShouldRelax(distances, id, new_distance) ==
    id \notin DOMAIN distances \/ new_distance < distances[id]

\* d[k] = v on a dict held as a function
Put(d, k, v) == [x \in DOMAIN d \cup {k} |-> IF x = k THEN v ELSE d[x]]

\* the path reconstruction without path.reverse()
RECURSIVE ReconstructPath_NoReverse(_, _, _)
ReconstructPath_NoReverse(previous, node, path) ==
    IF Len(path) > Cardinality(DOMAIN previous) + 1
    THEN <<>>
    ELSE IF IdOf(node) \in DOMAIN previous
         THEN ReconstructPath_NoReverse(previous, previous[IdOf(node)], Append(path, node))
         ELSE Append(path, node)

\* lines 156-162: follow `previous` back from the target, then reverse
RECURSIVE ReconstructPath(_, _, _)
ReconstructPath(previous, node, path) ==
    IF Len(path) > Cardinality(DOMAIN previous) + 1
    THEN <<>>
    ELSE IF IdOf(node) \in DOMAIN previous
         THEN ReconstructPath(previous, previous[IdOf(node)], <<node>> \o path)
         ELSE <<node>> \o path

\* lines 165-175: the for loop over current_node.get_connected_nodes()
RECURSIVE FindPathNeighbors(_, _, _, _, _)
FindPathNeighbors(st, current_node, current_distance, neighbors, speed) ==
    IF neighbors = <<>> \/ st.status # "running"
    THEN st
    ELSE LET neighbor == Head(neighbors)
             seen == [st EXCEPT !.examined = @ + 1]
         IN  IF IdOf(neighbor) \in st.visited
             THEN FindPathNeighbors(seen, current_node, current_distance,
                                    Tail(neighbors), speed)
             ELSE IF speed = 0
                  THEN [seen EXCEPT !.status = "ZeroDivisionError"]
                  ELSE LET travel_time == get_travel_time_to(current_node, neighbor, speed)
                           new_distance == current_distance + travel_time
                           relaxed ==
                               IF ShouldRelax(st.distances, IdOf(neighbor), new_distance)
                               THEN [seen EXCEPT
                                       !.distances = Put(@, IdOf(neighbor), new_distance),
                                       !.previous = Put(@, IdOf(neighbor), current_node),
                                       !.unvisited = Append(@, HeapEntry(new_distance, neighbor))]
                               ELSE seen
                       IN  FindPathNeighbors(relaxed, current_node, current_distance,
                                             Tail(neighbors), speed)

\* lines 146-177: the while loop; `budget` is the number of iterations left
\* before the loop is reported as not ending
RECURSIVE FindPathLoop(_, _, _, _, _)
FindPathLoop(conns, st, target_node, speed, budget) ==
    IF st.status # "running"
    THEN st
    ELSE IF st.unvisited = <<>>
    THEN [st EXCEPT !.status = "none"]
    ELSE IF budget = 0
    THEN [st EXCEPT !.status = "diverged"]
    ELSE LET i == HeapMinIndex(st.unvisited)
             current == st.unvisited[i]
             popped == [st EXCEPT !.unvisited = RemoveAt(@, i), !.pops = @ + 1]
         IN  IF current.id \in st.visited
             THEN FindPathLoop(conns, popped, target_node, speed, budget - 1)
             ELSE LET marked == [popped EXCEPT !.visited = @ \cup {current.id}]
                  IN  IF NodeEq(current.node, target_node)
                      THEN LET path == ReconstructPath(marked.previous, current.node, <<>>)
                           IN  IF path = <<>>
                               THEN [marked EXCEPT !.status = "diverged"]
                               ELSE [marked EXCEPT !.status = "path", !.path = path,
                                                   !.cost = current.distance]
                      ELSE FindPathLoop(conns,
                               FindPathNeighbors(marked, current.node, current.distance,
                                                 get_connected_nodes(conns, current.node),
                                                 speed),
                               target_node, speed, budget - 1)

\* every push but the first follows the examination of one adjacency entry of a
\* node visited for the first time, so the loop ends within this many pops
LoopBudget(conns) == NumEdges(conns) + 2

SearchStart(self) ==
    [status |-> "running", path |-> <<>>, cost |-> 0, pops |-> 0, examined |-> 0,
     distances |-> Put(<<>>, IdOf(self), 0),
     previous |-> <<>>,
     unvisited |-> <<HeapEntry(0, self)>>,
     visited |-> {},
     reachable |-> <<>>]

\* what the caller gets back
PathResult(st) ==
    [status |-> st.status, path |-> st.path, cost |-> st.cost,
     pops |-> st.pops, examined |-> st.examined]

\* find_path_to without the `self == target_node` return of lines 137-138
find_path_to_NoSelfCheck(conns, self, target_node, speed) ==
    PathResult(FindPathLoop(conns, SearchStart(self), target_node, speed,
                            LoopBudget(conns)))

find_path_to(conns, self, target_node, speed) ==
    IF NodeEq(self, target_node)
    THEN [status |-> "path", path |-> <<self>>, cost |-> 0, pops |-> 0, examined |-> 0]
    ELSE PathResult(FindPathLoop(conns, SearchStart(self), target_node, speed,
                                 LoopBudget(conns)))

----------------------------------------------------------------------------
(* Node.get_reachable_nodes (node.py 179-220).  max_travel_time is a pair  *)
(* of `limited` (FALSE for None) and the limit.  `reachable` is the dict   *)
(* keyed by node object.                                                   *)

\* lines 207-218: the for loop over current_node.get_connected_nodes()
RECURSIVE ReachableNeighbors(_, _, _, _, _, _, _)
ReachableNeighbors(st, current_node, current_distance, neighbors, limited, max_travel_time, speed) ==
    IF neighbors = <<>> \/ st.status # "running"
    THEN st
    ELSE LET neighbor == Head(neighbors)
             seen == [st EXCEPT !.examined = @ + 1]
         IN  IF IdOf(neighbor) \in st.visited
             THEN ReachableNeighbors(seen, current_node, current_distance,
                                     Tail(neighbors), limited, max_travel_time, speed)
             ELSE IF speed = 0
                  THEN [seen EXCEPT !.status = "ZeroDivisionError"]
                  ELSE LET travel_time == get_travel_time_to(current_node, neighbor, speed)
                           new_distance == current_distance + travel_time
                           relaxed ==
                               IF /\ ~limited \/ new_distance <= max_travel_time
                                  /\ ShouldRelax(st.distances, IdOf(neighbor), new_distance)
                               THEN [seen EXCEPT
                                       !.distances = Put(@, IdOf(neighbor), new_distance),
                                       !.reachable = Put(@, neighbor, new_distance),
                                       !.unvisited = Append(@, HeapEntry(new_distance, neighbor))]
                               ELSE seen
                       IN  ReachableNeighbors(relaxed, current_node, current_distance,
                                              Tail(neighbors), limited, max_travel_time,
                                              speed)

\* lines 195-220: the while loop
RECURSIVE ReachableLoop(_, _, _, _, _, _)
ReachableLoop(conns, st, limited, max_travel_time, speed, budget) ==
    IF st.status # "running"
    THEN st
    ELSE IF st.unvisited = <<>>
    THEN [st EXCEPT !.status = "done"]
    ELSE IF budget = 0
    THEN [st EXCEPT !.status = "diverged"]
    ELSE LET i == HeapMinIndex(st.unvisited)
             current == st.unvisited[i]
             popped == [st EXCEPT !.unvisited = RemoveAt(@, i), !.pops = @ + 1]
         IN  IF current.id \in st.visited
             THEN ReachableLoop(conns, popped, limited, max_travel_time, speed, budget - 1)
             ELSE IF limited /\ current.distance > max_travel_time
             THEN ReachableLoop(conns, popped, limited, max_travel_time, speed, budget - 1)
             ELSE ReachableLoop(conns,
                      ReachableNeighbors([popped EXCEPT !.visited = @ \cup {current.id}],
                                         current.node, current.distance,
                                         get_connected_nodes(conns, current.node),
                                         limited, max_travel_time, speed),
                      limited, max_travel_time, speed, budget - 1)

get_reachable_nodes(conns, self, limited, max_travel_time, speed) ==
    LET start == [SearchStart(self) EXCEPT !.reachable = Put(<<>>, self, 0)]
        st == ReachableLoop(conns, start, limited, max_travel_time, speed,
                            LoopBudget(conns))
    IN  [status |-> st.status, reachable |-> st.reachable,
         pops |-> st.pops, examined |-> st.examined]

----------------------------------------------------------------------------
(* NodeNetwork.add_node / NodeNetwork.remove_node *)

\* add_node that stores the node before it looks at the id
add_node_Overwrite(net, node) ==
    [ret |-> ~HasKey(net, IdOf(node)), nodes |-> DictSet(net, node)]

add_node(net, node) ==
    IF HasKey(net, IdOf(node))
    THEN [ret |-> FALSE, nodes |-> net]
    ELSE [ret |-> TRUE, nodes |-> DictSet(net, node)]

\* the loop of remove_node over list(node.connections.values())
RECURSIVE DisconnectAll(_, _, _)
DisconnectAll(conns, node, others) ==
    IF others = <<>>
    THEN conns
    ELSE DisconnectAll(disconnect_from(conns, node, Head(others), TRUE).conns,
                       node, Tail(others))

remove_node(net, conns, node) ==
    IF ~HasKey(net, IdOf(node))
    THEN [ret |-> FALSE, nodes |-> net, conns |-> conns]
    ELSE [ret |-> TRUE,
          nodes |-> DictDel(net, IdOf(node)),
          conns |-> DisconnectAll(conns, node, get_connected_nodes(conns, node))]

----------------------------------------------------------------------------
(* State *)

\* the node object is the one the network stores under its id
IsMember(net, o) == HasKey(net, IdOf(o)) /\ Lookup(net, IdOf(o)) = o

NoOp == [op |-> "none", node |-> "n1", other |-> "n1", bidirectional |-> FALSE,
         ret |-> FALSE, again |-> FALSE]

\* the call (op, self, other, bidirectional) is the call made just before it
Again(op, self, other, bidirectional) ==
    /\ lastOp.op = op /\ lastOp.node = self /\ lastOp.other = other
    /\ lastOp.bidirectional = bidirectional

NoQuery == [kind |-> "none"]

\* generate_network has not been called
NoGen == [pc |-> "idle"]

Init ==
    /\ nodes = <<>>
    /\ connections = [o \in AllObjs |-> <<>>]
    /\ lastOp = NoOp
    /\ query = NoQuery
    /\ gen = NoGen

AddNode(node) ==
    \E r \in {add_node(nodes, node)} :
        /\ nodes' = r.nodes
        /\ lastOp' = [op |-> "add_node", node |-> node, other |-> node,
                      bidirectional |-> FALSE, ret |-> r.ret, again |-> FALSE]
        /\ UNCHANGED <<connections, query, gen>>

RemoveNode(node) ==
    \E r \in {remove_node(nodes, connections, node)} :
        /\ nodes' = r.nodes
        /\ connections' = r.conns
        /\ lastOp' = [op |-> "remove_node", node |-> node, other |-> node,
                      bidirectional |-> FALSE, ret |-> r.ret, again |-> FALSE]
        /\ UNCHANGED <<query, gen>>

Connect(self, other, bidirectional) ==
    /\ IsMember(nodes, self) /\ IsMember(nodes, other)
    /\ \E r \in {connect_to(connections, self, other, bidirectional)} :
        /\ NumEdges(connections) < MaxEdges \/ ~r.ret
        /\ connections' = r.conns
        /\ lastOp' = [op |-> "connect_to", node |-> self, other |-> other,
                      bidirectional |-> bidirectional, ret |-> r.ret,
                      again |-> Again("connect_to", self, other, bidirectional)]
        /\ UNCHANGED <<nodes, query, gen>>

Disconnect(self, other, bidirectional) ==
    /\ IsMember(nodes, self) /\ IsMember(nodes, other)
    /\ \E r \in {disconnect_from(connections, self, other, bidirectional)} :
        /\ connections' = r.conns
        /\ lastOp' = [op |-> "disconnect_from", node |-> self, other |-> other,
                      bidirectional |-> bidirectional, ret |-> r.ret, again |-> FALSE]
        /\ UNCHANGED <<nodes, query, gen>>

\* the network operations on two different member nodes; NextBidir and
\* NextSelfLoop connect a node to itself as well
Next ==
    \/ \E node \in NetObjs \cup DupObjs : AddNode(node)
    \/ \E node \in NetObjs : RemoveNode(node)
    \/ \E self \in NetObjs, other \in NetObjs, bidirectional \in BOOLEAN :
           self # other /\ Connect(self, other, bidirectional)
    \/ \E self \in NetObjs, other \in NetObjs, bidirectional \in BOOLEAN :
           self # other /\ Disconnect(self, other, bidirectional)

Spec == Init /\ [][Next]_vars

(* The callers of Node.connect_to / disconnect_from that pass            *)
(* bidirectional=True only (the default of both methods).                 *)
NextBidir ==
    \/ \E node \in NetObjs \cup DupObjs : AddNode(node)
    \/ \E node \in NetObjs : RemoveNode(node)
    \/ \E self \in NetObjs, other \in NetObjs : Connect(self, other, TRUE)
    \/ \E self \in NetObjs, other \in NetObjs : Disconnect(self, other, TRUE)

SpecBidir == Init /\ [][NextBidir]_vars

----------------------------------------------------------------------------
(* Path queries on graphs of the four nodes built by connect_to.  The      *)
(* queries change nothing of the graph, so a behaviour builds a graph and  *)
(* ends with the one query whose result it records.                        *)

\* the speeds the queries are made with; 1.0 is the default
Speeds == {0, 1, 2}

\* max_travel_time: None, or a limit
TravelLimits ==
    {[limited |-> FALSE, max |-> 0], [limited |-> TRUE, max |-> 20],
     [limited |-> TRUE, max |-> 40]}

\* a connect_to that builds the graph of a query, of at most cap adjacency entries
GraphConnect(self, other, bidirectional, cap) ==
    LET r == connect_to(connections, self, other, bidirectional)
    IN  /\ query = NoQuery
        /\ r.ret
        /\ NumEdges(r.conns) <= cap
        /\ connections' = r.conns
        /\ query' = NoQuery
        /\ UNCHANGED <<nodes, lastOp, gen>>

FindPath(self, target_node, speed) ==
    /\ query = NoQuery
    /\ query' = [kind |-> "find_path_to", self |-> self, target |-> target_node,
                 speed |-> speed,
                 result |-> find_path_to(connections, self, target_node, speed)]
    /\ UNCHANGED <<nodes, connections, lastOp, gen>>

GetReachable(self, limit, speed) ==
    /\ query = NoQuery
    /\ query' = [kind |-> "get_reachable_nodes", self |-> self, limit |-> limit,
                 speed |-> speed,
                 result |-> get_reachable_nodes(connections, self, limit.limited,
                                                limit.max, speed)]
    /\ UNCHANGED <<nodes, connections, lastOp, gen>>

\* graphs of the four nodes without self-loops
NextPath ==
    \/ \E self \in NodeObjs, other \in NodeObjs, bidirectional \in BOOLEAN :
           self # other /\ GraphConnect(self, other, bidirectional, MaxPathEdges)
    \/ \E self \in NodeObjs, target_node \in NodeObjs, speed \in Speeds :
           FindPath(self, target_node, speed)
    \/ \E self \in NodeObjs, limit \in TravelLimits, speed \in Speeds \ {0} :
           GetReachable(self, limit, speed)

SpecPath == Init /\ [][NextPath]_vars

\* graphs of three nodes in which a node may be connected to itself
NextSelfLoop ==
    \/ \E self \in NetObjs, other \in NetObjs, bidirectional \in BOOLEAN :
           GraphConnect(self, other, bidirectional, MaxEdges)
    \/ \E self \in NetObjs, target_node \in NetObjs, speed \in Speeds :
           FindPath(self, target_node, speed)

SpecSelfLoop == Init /\ [][NextSelfLoop]_vars

----------------------------------------------------------------------------
(* Properties of the network operations *)

\* the node objects the network holds
Members(net) == {net[i] : i \in DOMAIN net}

\* other is the object stored in self.connections under its id
Adjacent(conns, self, other) ==
    \E i \in DOMAIN conns[self] : conns[self][i] = other

Degree(conns, o) == Len(conns[o])

\* C1: network closure: every id in the adjacency set of a member node is the
\* id of a node that is currently a member of the same network, in every state
\* reachable by add_node, remove_node, connect_to and disconnect_from.
C1_NetworkClosure ==
    \A m \in Members(nodes) : \A k \in Keys(connections[m]) : HasKey(nodes, k)

\* C2: cascading removal: when remove_node(n) has returned True, n's id is not
\* a key of the network and no member node has n's id in its adjacency set,
\* also when some m held a one-directional edge m -> n.
C2_CascadingRemoval ==
    (lastOp.op = "remove_node" /\ lastOp.ret)
        => /\ ~HasKey(nodes, IdOf(lastOp.node))
           /\ \A m \in Members(nodes) : ~HasKey(connections[m], IdOf(lastOp.node))

\* C3: adjacency symmetry: from the edgeless graph, under bidirectional
\* connect_to, bidirectional disconnect_from and remove_node, b is in a's
\* adjacency set exactly when a is in b's, for all nodes a and b.
C3_AdjacencySymmetry ==
    \A a \in AllObjs, b \in AllObjs :
        Adjacent(connections, a, b) <=> Adjacent(connections, b, a)

\* a remove_node has cascaded and an edge is left between two other nodes
C3_Witness ==
    /\ lastOp.op = "remove_node" /\ lastOp.ret
    /\ \E a \in NetObjs, b \in NetObjs :
           a # b /\ Adjacent(connections, a, b) /\ Adjacent(connections, b, a)

NoEdgeBetween(conns, a, b) ==
    ~HasKey(conns[a], IdOf(b)) /\ ~HasKey(conns[b], IdOf(a))

\* C4: idempotent connect: a connect_to(a, b) with no edge between a and b
\* returns True and raises the degree of a (and of b when bidirectional) by
\* exactly one; the identical call made next returns False and changes no
\* adjacency set, so after both calls the degrees are one more than before the
\* first.
C4_IdempotentConnect ==
    [][lastOp'.op = "connect_to" =>
         LET a == lastOp'.node
             b == lastOp'.other
         IN  /\ NoEdgeBetween(connections, a, b)
                  => /\ lastOp'.ret
                     /\ Degree(connections', a) = Degree(connections, a) + 1
                     /\ lastOp'.bidirectional
                          => Degree(connections', b) = Degree(connections, b) + 1
                     /\ \A o \in AllObjs \ {a, b} : connections'[o] = connections[o]
             /\ (lastOp'.again /\ lastOp.ret)
                  => /\ ~lastOp'.ret
                     /\ connections' = connections
      ]_vars

\* the second of two identical bidirectional connect_to calls has returned False
C4_Witness ==
    /\ lastOp.op = "connect_to" /\ lastOp.again /\ ~lastOp.ret /\ lastOp.bidirectional
    /\ lastOp.node # lastOp.other
    /\ Degree(connections, lastOp.node) = 1 /\ Degree(connections, lastOp.other) = 1

\* C5: rejected membership operations change nothing: add_node with an id
\* already present and remove_node of an id not present return False, and the
\* network's id-to-node mapping (the stored objects included) and every
\* adjacency set are as before.
C5_RejectedChangeNothing ==
    [][/\ (lastOp'.op = "add_node" /\ HasKey(nodes, IdOf(lastOp'.node)))
            => (~lastOp'.ret /\ nodes' = nodes /\ connections' = connections)
       /\ (lastOp'.op = "remove_node" /\ ~HasKey(nodes, IdOf(lastOp'.node)))
            => (~lastOp'.ret /\ nodes' = nodes /\ connections' = connections)
       /\ (lastOp'.op \in {"add_node", "remove_node"} /\ ~lastOp'.ret)
            => (nodes' = nodes /\ connections' = connections)
      ]_vars

\* add_node(n1b) was rejected while n1 is stored under the shared id and edges exist
C5_Witness ==
    /\ lastOp.op = "add_node" /\ ~lastOp.ret /\ lastOp.node = "n1b"
    /\ IsMember(nodes, "n1")
    /\ Degree(connections, "n1") > 0

----------------------------------------------------------------------------
(* Properties of the path queries *)

SetMin(S) == CHOOSE x \in S : \A y \in S : x <= y

\* one more edge: d maps every node to the least cost found so far, -1 for none
ExtendWalks(conns, d, speed) ==
    [v \in NodeObjs |->
        LET cands == {d[u] + get_distance_to(u, v) \div speed :
                          u \in {w \in NodeObjs : d[w] # -1 /\ Adjacent(conns, w, v)}}
                     \cup (IF d[v] # -1 THEN {d[v]} ELSE {})
        IN  CHOOSE m \in cands \cup {-1} :
                IF cands = {} THEN m = -1 ELSE m \in cands /\ \A y \in cands : m <= y]

\* The least cost of a walk of at most k edges from source to every node, and
\* -1 for a node no such walk ends at (travel times are not negative here).
RECURSIVE WalkCost(_, _, _, _)
WalkCost(conns, source, speed, k) ==
    IF k = 0
    THEN [v \in NodeObjs |-> IF v = source THEN 0 ELSE -1]
    ELSE CHOOSE r \in {ExtendWalks(conns, d, speed) :
                           d \in {WalkCost(conns, source, speed, k - 1)}} : TRUE

\* the minimum over all directed paths: a cheapest walk repeats no node
MinCost(conns, source, speed) == WalkCost(conns, source, speed, Cardinality(NodeObjs))

\* C6: shortest-path optimality: with a positive speed and the target
\* reachable from the source, find_path_to returns a path and its cost is the
\* minimum over all directed paths of the sum of the edge travel times.
C6_ShortestPathOptimal ==
    (query.kind = "find_path_to" /\ query.speed > 0)
        => \A best \in {MinCost(connections, query.self, query.speed)} :
               best[query.target] # -1
                   => /\ query.result.status = "path"
                      /\ query.result.cost = best[query.target]

\* n4 was first reached over n1 at cost 60 and then over n3 at cost 40
C6_Witness ==
    /\ query.kind = "find_path_to" /\ query.self = "n2" /\ query.target = "n4"
    /\ query.speed = 1
    /\ Adjacent(connections, "n2", "n1") /\ Adjacent(connections, "n1", "n4")
    /\ query.result.status = "path" /\ query.result.cost = 40

RECURSIVE SumTravelTime(_, _)
SumTravelTime(path, speed) ==
    IF Len(path) < 2
    THEN 0
    ELSE get_distance_to(path[1], path[2]) \div speed + SumTravelTime(Tail(path), speed)

\* C7: shortest-path well-formedness: a returned path starts with the source,
\* ends with the target, holds no node twice, every consecutive pair (u, v)
\* has v in u's adjacency set, and the returned cost is the sum of the travel
\* times of those pairs.
C7_PathWellFormed ==
    (query.kind = "find_path_to" /\ query.result.status = "path")
        => LET path == query.result.path
           IN  /\ Len(path) >= 1
               /\ path[1] = query.self
               /\ path[Len(path)] = query.target
               /\ \A i \in DOMAIN path, j \in DOMAIN path : i # j => ~NodeEq(path[i], path[j])
               /\ \A i \in 1..(Len(path) - 1) : Adjacent(connections, path[i], path[i + 1])
               /\ query.result.cost = SumTravelTime(path, query.speed)

\* the chain n1 - n2 - n3 without an edge n1 - n3
C7_Witness ==
    /\ query.kind = "find_path_to" /\ query.speed = 2
    /\ ~Adjacent(connections, "n1", "n3")
    /\ query.result.status = "path"
    /\ query.result.path = <<"n1", "n2", "n3">>
    /\ query.result.cost = 15

\* C8: no-path result: with a positive speed find_path_to ends, with a path or
\* with the absent result and never with an error, and the result is absent
\* exactly when no directed path of edges leads from the source to the target.
C8_NoPathResult ==
    (query.kind = "find_path_to" /\ query.speed > 0)
        => /\ query.result.status \in {"path", "none"}
           /\ \A best \in {MinCost(connections, query.self, query.speed)} :
                  query.result.status = "none" <=> best[query.target] = -1

\* absent although the source has edges and the target has an edge to the source
C8_Witness ==
    /\ query.kind = "find_path_to" /\ query.speed > 0
    /\ query.result.status = "none"
    /\ Degree(connections, query.self) > 0
    /\ Adjacent(connections, query.target, query.self)

\* C9: self path: find_path_to called on a node with itself as the target
\* returns the one-node path with cost 0, whatever the node's adjacency set and
\* the speed, without a step of the search and without looking at an edge.
C9_SelfPath ==
    (query.kind = "find_path_to" /\ NodeEq(query.self, query.target))
        => query.result = [status |-> "path", path |-> <<query.self>>, cost |-> 0,
                           pops |-> 0, examined |-> 0]

\* the node is connected to itself and to another node
C9_Witness ==
    /\ query.kind = "find_path_to" /\ query.self = query.target
    /\ Adjacent(connections, query.self, query.self)
    /\ Degree(connections, query.self) >= 2
    /\ query.result.status = "path"

\* C10: reachable set: with a positive speed get_reachable_nodes returns a
\* mapping whose keys are the source and every node whose minimal cumulative
\* travel time from the source is at most max_travel_time (every node reachable
\* by edges when there is no limit), each mapped to that minimal time, the
\* source to 0.
C10_ReachableSet ==
    (query.kind = "get_reachable_nodes" /\ query.speed > 0)
        => \A best \in {MinCost(connections, query.self, query.speed)} :
               LET reachable == query.result.reachable
               IN  /\ query.result.status = "done"
                   /\ DOMAIN reachable =
                          {query.self} \cup
                          {v \in NodeObjs :
                               /\ best[v] # -1
                               /\ ~query.limit.limited \/ best[v] <= query.limit.max}
                   /\ \A v \in DOMAIN reachable : reachable[v] = best[v]
                   /\ reachable[query.self] = 0

\* under a limit: a node exactly at the limit is a key, a node connected by
\* edges but beyond the limit is not
C10_Witness ==
    /\ query.kind = "get_reachable_nodes" /\ query.limit.limited /\ query.speed = 2
    /\ \E v \in DOMAIN query.result.reachable : query.result.reachable[v] = query.limit.max
    /\ \E v \in NodeObjs :
           /\ MinCost(connections, query.self, query.speed)[v] # -1
           /\ v \notin DOMAIN query.result.reachable

----------------------------------------------------------------------------
(* Queries made with any speed: positive, zero or negative.  No method    *)
(* checks the speed; the only error is the division of line 103.          *)

\* the call of Node.get_travel_time_to as its caller sees it: the quotient, or
\* the ZeroDivisionError of `distance / speed`
TravelTimeCall(self, other_node, speed) ==
    IF speed = 0
    THEN [status |-> "ZeroDivisionError", value |-> 0]
    ELSE [status |-> "value", value |-> get_travel_time_to(self, other_node, speed)]

AnySpeeds == {-1, 0, 1}

GetTravelTime(self, other_node, speed) ==
    /\ query = NoQuery
    /\ query' = [kind |-> "get_travel_time_to", self |-> self, other |-> other_node,
                 speed |-> speed,
                 result |-> TravelTimeCall(self, other_node, speed)]
    /\ UNCHANGED <<nodes, connections, lastOp, gen>>

NextSpeed ==
    \/ \E self \in NetObjs, other \in NetObjs, bidirectional \in BOOLEAN :
           self # other /\ GraphConnect(self, other, bidirectional, MaxEdges)
    \/ \E self \in NetObjs, other_node \in NetObjs, speed \in AnySpeeds :
           GetTravelTime(self, other_node, speed)
    \/ \E self \in NetObjs, target_node \in NetObjs, speed \in AnySpeeds :
           FindPath(self, target_node, speed)
    \/ \E self \in NetObjs, limit \in TravelLimits, speed \in AnySpeeds :
           GetReachable(self, limit, speed)

SpecSpeed == Init /\ [][NextSpeed]_vars

\* C11: non-positive speed is a usage error: get_travel_time_to, find_path_to
\* and get_reachable_nodes called with speed <= 0 end in an error, and never
\* return a travel time, a path, the absent result or a reachability mapping.
C11_NonPositiveSpeedIsError ==
    (/\ query.kind \in {"get_travel_time_to", "find_path_to", "get_reachable_nodes"}
     /\ query.speed <= 0)
        => query.result.status = "ZeroDivisionError"

----------------------------------------------------------------------------
(* GeoLocation.translate (geoLocation.py 77-108) and the geometry calls on *)
(* locations.  The spherical formulas of lines 89-94 have an integer value *)
(* for a move along a meridian (bearing 0 or 180) that stays short of the  *)
(* poles and for a move along the equator (bearing 90 or 270), which is    *)
(* what the model computes, in degrees without the rounding of the floats. *)

\* math.degrees(math.atan2(sin(d), cos(d))): the angle d brought into (-180, 180]
Atan2Degrees(d) ==
    LET m == ((d + 180) % 360) - 180
    IN  IF m = -180 THEN 180 ELSE m

\* the moves the model has a value for
TranslateDefined(self, direction, distance) ==
    \/ /\ direction \in {0, 180}
       /\ Abs(self.latitude) + Abs(distance) < 90
    \/ /\ direction \in {90, 270}
       /\ self.latitude = 0

\* lines 89-98: the new latitude and longitude before they are normalised
SphericalMove(self, direction, distance) ==
    CASE direction = 0 ->
             [latitude |-> self.latitude + distance, longitude |-> self.longitude]
      [] direction = 180 ->
             [latitude |-> self.latitude - distance, longitude |-> self.longitude]
      [] direction = 90 ->
             [latitude |-> 0, longitude |-> self.longitude + Atan2Degrees(distance)]
      [] direction = 270 ->
             [latitude |-> 0, longitude |-> self.longitude - Atan2Degrees(distance)]

\* line 101
NormalizeLongitude(new_longitude) == ((new_longitude + 180) % 360) - 180

\* line 104: max(-45, min(45, new_latitude))
ClampLatitude(new_latitude) ==
    LET low == IF new_latitude < 45 THEN new_latitude ELSE 45
    IN  IF low > -45 THEN low ELSE -45

\* GeoLocation.translate: the location the call leaves in self
translate(self, direction, distance) ==
    LET moved == SphericalMove(self, direction, distance)
    IN  [latitude |-> ClampLatitude(moved.latitude),
         longitude |-> NormalizeLongitude(moved.longitude)]

\* the longitudes and latitudes the calls are made with
GeoLongitudes == {-180, -179, -170, -90, -1, 0, 1, 90, 170, 179, 180, 200, 400}

GeoLatitudes == {-45, -40, 0, 40, 45}

Bearings == {0, 90, 180, 270}

TranslateDistances == {0, 1, 10, 20, 180, 360}

\* loc1.get_distance_to_point(loc2) and loc2.get_distance_to_point(loc1) for two
\* points of the equator, as test_distance_symmetry calls them
GetDistance(lon1, lon2) ==
    LET loc1 == [latitude |-> 0, longitude |-> lon1]
        loc2 == [latitude |-> 0, longitude |-> lon2]
    IN  /\ query = NoQuery
        /\ query' = [kind |-> "get_distance_to_point", self |-> loc1, other |-> loc2,
                     result |-> get_distance_to_point(loc1, loc2),
                     reverse |-> get_distance_to_point(loc2, loc1)]
        /\ UNCHANGED <<nodes, connections, lastOp, gen>>

Translate(self, direction, distance) ==
    /\ query = NoQuery
    /\ TranslateDefined(self, direction, distance)
    /\ query' = [kind |-> "translate", self |-> self, direction |-> direction,
                 distance |-> distance,
                 result |-> translate(self, direction, distance)]
    /\ UNCHANGED <<nodes, connections, lastOp, gen>>

NextGeo ==
    \/ \E lon1 \in GeoLongitudes, lon2 \in GeoLongitudes : GetDistance(lon1, lon2)
    \/ \E lat \in GeoLatitudes, lon \in GeoLongitudes \ {-180, 200, 400},
          direction \in Bearings, distance \in TranslateDistances :
           Translate([latitude |-> lat, longitude |-> lon], direction, distance)

SpecGeo == Init /\ [][NextGeo]_vars

InRangeLongitude(lon) == -180 < lon /\ lon <= 180

\* C16: translate keeps the location in range: from any in-range location,
\* for any bearing and distance, the resulting latitude lies in [-45, 45] and
\* the resulting longitude in (-180, 180]: -180 is never produced.
C16_TranslateInRange ==
    query.kind = "translate"
        => /\ -45 <= query.result.latitude /\ query.result.latitude <= 45
           /\ InRangeLongitude(query.result.longitude)

Min(a, b) == IF a < b THEN a ELSE b

\* C17: dateline wrap in distance: for two points of the equator with in-range
\* longitudes the distance is the shorter way around, min(|d|, 360 - |d|) for
\* d the raw longitude difference, and it is the same in both argument orders.
C17_DatelineWrap ==
    (/\ query.kind = "get_distance_to_point"
     /\ InRangeLongitude(query.self.longitude)
     /\ InRangeLongitude(query.other.longitude))
        => LET d == query.other.longitude - query.self.longitude
           IN  /\ query.result = Min(Abs(d), 360 - Abs(d))
               /\ query.reverse = query.result

\* the distance of longitudes -179 and 180 is 1, in both orders
C17_Witness ==
    /\ query.kind = "get_distance_to_point"
    /\ query.self.longitude = -179 /\ query.other.longitude = 180
    /\ query.result = 1 /\ query.reverse = 1

----------------------------------------------------------------------------
(* NodeNetwork.get_network_stats *)

\* sum(len(node.connections) for node in self.nodes.values())
RECURSIVE SumOfDegrees(_, _)
SumOfDegrees(net, conns) ==
    IF net = <<>> THEN 0 ELSE Len(conns[Head(net)]) + SumOfDegrees(Tail(net), conns)

\* get_network_stats that reports the sum of the degrees as the connections
get_network_stats_NoHalving(net, conns) ==
    [total_nodes |-> Len(net),
     total_connections |-> SumOfDegrees(net, conns),
     average_connections_per_node |->
         IF Len(net) = 0 THEN [num |-> 0, den |-> 1]
         ELSE [num |-> SumOfDegrees(net, conns), den |-> Len(net)],
     isolated_nodes |-> Cardinality({i \in DOMAIN net : Len(conns[net[i]]) = 0})]

\* the average is the float sum / total_nodes, kept as the fraction num / den;
\* the 0 of the empty network is the fraction 0 / 1
get_network_stats(net, conns) ==
    LET total_nodes == Len(net)
        total_connections == SumOfDegrees(net, conns) \div 2
    IN  IF total_nodes = 0
        THEN [total_nodes |-> 0, total_connections |-> 0,
              average_connections_per_node |-> [num |-> 0, den |-> 1],
              isolated_nodes |-> 0]
        ELSE [total_nodes |-> total_nodes,
              total_connections |-> total_connections,
              average_connections_per_node |->
                  [num |-> SumOfDegrees(net, conns), den |-> total_nodes],
              isolated_nodes |->
                  Cardinality({i \in DOMAIN net : Len(conns[net[i]]) = 0})]

\* an add_node that builds the network of a query
GraphAdd(node) ==
    \E r \in {add_node(nodes, node)} :
        /\ query = NoQuery
        /\ r.ret
        /\ nodes' = r.nodes
        /\ UNCHANGED <<connections, lastOp, query, gen>>

\* a remove_node that builds the network of a query
GraphRemove(node) ==
    \E r \in {remove_node(nodes, connections, node)} :
        /\ query = NoQuery
        /\ r.ret
        /\ nodes' = r.nodes
        /\ connections' = r.conns
        /\ UNCHANGED <<lastOp, query, gen>>

GetNetworkStats ==
    /\ query = NoQuery
    /\ query' = [kind |-> "get_network_stats",
                 result |-> get_network_stats(nodes, connections)]
    /\ UNCHANGED <<nodes, connections, lastOp, gen>>

\* networks of up to three nodes, with edges in one or both directions, between
\* members or not, self-loops included
NextStats ==
    \/ \E node \in NetObjs : GraphAdd(node)
    \/ \E node \in NetObjs : GraphRemove(node)
    \/ \E self \in NetObjs, other \in NetObjs, bidirectional \in BOOLEAN :
           GraphConnect(self, other, bidirectional, MaxEdges)
    \/ GetNetworkStats

SpecStats == Init /\ [][NextStats]_vars

\* every adjacency entry has its reverse
AllBidirectional(conns) ==
    \A a \in DOMAIN conns, b \in DOMAIN conns :
        Adjacent(conns, a, b) => Adjacent(conns, b, a)

\* every adjacency entry of a member leads to another member
JoinsTwoMembers(net, conns) ==
    \A a \in Members(net) : \A i \in DOMAIN conns[a] :
        conns[a][i] # a /\ conns[a][i] \in Members(net)

\* the sets {a, b}, one or two members, with a adjacent to b or b to a
AdjacentPairs(net, conns) ==
    {{a, b} : <<a, b>> \in {p \in Members(net) \X Members(net) :
                               Adjacent(conns, p[1], p[2])}}

StatsCounts(st, net, conns) ==
    /\ st.total_nodes = Len(net)
    /\ st.isolated_nodes = Cardinality({a \in Members(net) : Degree(conns, a) = 0})
    /\ st.average_connections_per_node.num * st.total_nodes
           = SumOfDegrees(net, conns) * st.average_connections_per_node.den
    /\ st.average_connections_per_node.den # 0
    /\ net = <<>> =>
           /\ st.total_nodes = 0 /\ st.total_connections = 0
           /\ st.isolated_nodes = 0 /\ st.average_connections_per_node.num = 0

\* C19 as stated: network statistics: in every reachable network state the
\* reported edge count is exactly half the sum of the member degrees, the
\* other three figures are the member count, the average degree and the number
\* of members of degree 0, the empty network reports four zeros without a
\* division by zero, and when all edges are bidirectional the edge count is
\* the number of unordered adjacent pairs.
C19_StatsAsStated ==
    query.kind = "get_network_stats"
        => /\ StatsCounts(query.result, nodes, connections)
           /\ 2 * query.result.total_connections = SumOfDegrees(nodes, connections)
           /\ AllBidirectional(connections)
                  => query.result.total_connections
                         = Cardinality(AdjacentPairs(nodes, connections))

\* C19: network statistics: in every reachable network state the reported edge
\* count is the sum of the member degrees halved and rounded down, the other
\* three figures are as stated, the empty network reports four zeros, and
\* when every edge is bidirectional and joins two different member nodes the
\* edge count is the number of unordered adjacent pairs.
C19_Stats ==
    query.kind = "get_network_stats"
        => /\ StatsCounts(query.result, nodes, connections)
           /\ query.result.total_connections
                  = SumOfDegrees(nodes, connections) \div 2
           /\ (AllBidirectional(connections) /\ JoinsTwoMembers(nodes, connections))
                  => query.result.total_connections
                         = Cardinality(AdjacentPairs(nodes, connections))

\* three members, one bidirectional edge and one edge in one direction only:
\* the degrees sum to 3 and one connection is reported
C19_Witness ==
    /\ query.kind = "get_network_stats"
    /\ query.result.total_nodes = 3
    /\ SumOfDegrees(nodes, connections) = 3
    /\ query.result.total_connections = 1
    /\ query.result.isolated_nodes = 0

----------------------------------------------------------------------------
(* NodeNetwork.create_grid_network *)

MaxGridSize == 3

\* node_grid[(i, j)]
GridNode(i, j) == GridNames[i + 1][j + 1]

\* the pairs (i, j) in the order of the two nested loops over range(grid_size)
GridCells(grid_size) ==
    [k \in 1..(grid_size * grid_size) |->
        <<(k - 1) \div grid_size, (k - 1) % grid_size>>]

\* the nodes a cell is connected to, around the edges of the grid too
GridNeighbours_Wrap(i, j, grid_size) ==
    <<GridNode(i, (j + 1) % grid_size), GridNode((i + 1) % grid_size, j)>>

\* the nodes the second pair of loops connects the node of cell (i, j) to: the
\* right neighbour, then the bottom neighbour
GridNeighbours(i, j, grid_size) ==
    (IF j + 1 < grid_size THEN <<GridNode(i, j + 1)>> ELSE <<>>)
        \o (IF i + 1 < grid_size THEN <<GridNode(i + 1, j)>> ELSE <<>>)

\* the first pair of loops: self.add_node(node) for every cell
RECURSIVE AddGridNodes(_, _)
AddGridNodes(net, cells) ==
    IF cells = <<>>
    THEN net
    ELSE CHOOSE r \in {AddGridNodes(added, Tail(cells)) :
                          added \in {add_node(net, GridNode(Head(cells)[1],
                                                            Head(cells)[2])).nodes}} :
             TRUE

\* current_node.connect_to(neighbour) for the neighbours in turn
RECURSIVE ConnectToAll(_, _, _)
ConnectToAll(conns, current_node, neighbours) ==
    IF neighbours = <<>>
    THEN conns
    ELSE CHOOSE r \in {ConnectToAll(c, current_node, Tail(neighbours)) :
                          c \in {connect_to(conns, current_node,
                                            Head(neighbours), TRUE).conns}} :
             TRUE

\* the second pair of loops
RECURSIVE ConnectGrid(_, _, _)
ConnectGrid(conns, cells, grid_size) ==
    IF cells = <<>>
    THEN conns
    ELSE LET i == Head(cells)[1]
             j == Head(cells)[2]
         IN  CHOOSE r \in {ConnectGrid(c, Tail(cells), grid_size) :
                              c \in {ConnectToAll(conns, GridNode(i, j),
                                                  GridNeighbours(i, j, grid_size))}} :
                 TRUE

\* the new Node objects start with no connections
create_grid_network(net, conns, center, grid_size, spacing) ==
    LET cells == GridCells(grid_size)
        created_nodes == [k \in DOMAIN cells |-> GridNode(cells[k][1], cells[k][2])]
        created == {created_nodes[k] : k \in DOMAIN cells}
        fresh == [o \in DOMAIN conns \cup created |->
                     IF o \in created THEN <<>> ELSE conns[o]]
        location == [o \in created |->
                        LET c == CHOOSE c \in {cells[k] : k \in DOMAIN cells} :
                                     GridNode(c[1], c[2]) = o
                        IN  [latitude |-> center.latitude
                                              + (c[1] - grid_size \div 2) * spacing,
                             longitude |-> center.longitude
                                               + (c[2] - grid_size \div 2) * spacing]]
    IN  [nodes |-> AddGridNodes(net, cells),
         conns |-> ConnectGrid(fresh, cells, grid_size),
         location |-> location,
         created_nodes |-> created_nodes]

GridCenters ==
    {[latitude |-> 0, longitude |-> 0], [latitude |-> 40, longitude |-> 179]}

GridSpacings == {1, 2}

CreateGridNetwork(center, grid_size, spacing) ==
    \E r \in {create_grid_network(nodes, connections, center, grid_size, spacing)} :
        /\ query = NoQuery
        /\ nodes' = r.nodes
        /\ connections' = r.conns
        /\ query' = [kind |-> "create_grid_network", before |-> nodes,
                     center |-> center, grid_size |-> grid_size,
                     spacing |-> spacing, location |-> r.location,
                     result |-> r.created_nodes]
        /\ UNCHANGED <<lastOp, gen>>

\* a grid built on the empty network or on one that has nodes and edges
NextGrid ==
    \/ \E node \in NetObjs : GraphAdd(node)
    \/ \E self \in NetObjs, other \in NetObjs :
           self # other /\ GraphConnect(self, other, TRUE, 2)
    \/ \E center \in GridCenters, grid_size \in 0..MaxGridSize,
          spacing \in GridSpacings :
           CreateGridNetwork(center, grid_size, spacing)

SpecGrid == Init /\ [][NextGrid]_vars

\* C20: grid builder: create_grid_network(center, size, spacing) adds exactly
\* size * size nodes to the network (an empty one in particular), the nodes of
\* cells (i, j) and (i2, j2) are adjacent if and only if |i - i2| + |j - j2| = 1,
\* so that the degrees of the grid nodes sum to 4 * size * (size - 1), and
\* every edge of a grid node is bidirectional.
C20_Grid ==
    query.kind = "create_grid_network"
        => LET size == query.grid_size
               cell == 0..(size - 1)
               created == {query.result[k] : k \in DOMAIN query.result}
           IN  /\ Len(query.result) = size * size
               /\ Cardinality(created) = size * size
               /\ Len(nodes) = Len(query.before) + size * size
               /\ \A o \in created : IsMember(nodes, o) /\ ~IsMember(query.before, o)
               /\ \A i \in cell, j \in cell, i2 \in cell, j2 \in cell :
                      Adjacent(connections, GridNode(i, j), GridNode(i2, j2))
                          <=> Abs(i - i2) + Abs(j - j2) = 1
               /\ SumOfDegrees(query.result, connections) = 4 * size * (size - 1)
               /\ \A o \in created : \A k \in DOMAIN connections[o] :
                      Adjacent(connections, connections[o][k], o)

\* a grid of size 3 built on the empty network: 9 nodes, degrees summing to 24,
\* the middle node with four neighbours
C20_Witness ==
    /\ query.kind = "create_grid_network"
    /\ query.before = <<>>
    /\ query.grid_size = 3
    /\ Len(nodes) = 9
    /\ SumOfDegrees(query.result, connections) = 24
    /\ Degree(connections, GridNode(1, 1)) = 4

----------------------------------------------------------------------------
(* thin_connections (generate_network.py 254-269), phase 7 of the          *)
(* generator, as a function of the network it is given                     *)

MaxThinEdges == 10

\* lines 260-265: the first of the connections at the greatest distance, if
\* that distance is greater than 0; None is <<>>
RECURSIVE FurthestLoop(_, _, _, _)
FurthestLoop(node, connected, furthest_connection, furthest_distance) ==
    IF connected = <<>>
    THEN furthest_connection
    ELSE IF get_distance_to(node, Head(connected)) > furthest_distance
         THEN FurthestLoop(node, Tail(connected), <<Head(connected)>>,
                           get_distance_to(node, Head(connected)))
         ELSE FurthestLoop(node, Tail(connected), furthest_connection,
                           furthest_distance)

\* lines 256-268 for one node.  The while loop takes one connection away at
\* each turn, or none when every connection is at distance 0, and then it
\* runs forever.
RECURSIVE ThinNode(_, _, _)
ThinNode(conns, node, max_connections) ==
    IF Len(get_connected_nodes(conns, node)) <= max_connections
    THEN [status |-> "returned", conns |-> conns]
    ELSE LET furthest_connection ==
                 FurthestLoop(node, get_connected_nodes(conns, node), <<>>, 0)
         IN  IF furthest_connection = <<>>
             THEN [status |-> "loops forever", conns |-> conns]
             ELSE CHOOSE r \in {ThinNode(c, node, max_connections) :
                                   c \in {disconnect_from(conns, node,
                                              furthest_connection[1], TRUE).conns}} :
                      TRUE

\* the for loop over the list network.get_all_nodes() returned at its start
RECURSIVE ThinLoop(_, _, _)
ThinLoop(conns, all_nodes, max_connections) ==
    IF all_nodes = <<>>
    THEN [status |-> "returned", conns |-> conns]
    ELSE \* the thinning of the first node, then of the rest
         CHOOSE r \in {IF t.status = "returned"
                       THEN ThinLoop(t.conns, Tail(all_nodes), max_connections)
                       ELSE t :
                          t \in {ThinNode(conns, Head(all_nodes), max_connections)}} :
             TRUE

\* thin_connections that looks at the first node of the network only
thin_connections_FirstOnly(net, conns, max_connections) ==
    IF net = <<>>
    THEN [status |-> "returned", conns |-> conns]
    ELSE ThinNode(conns, Head(net), max_connections)

thin_connections(net, conns, max_connections) ==
    ThinLoop(conns, net, max_connections)

\* the orders in which the networks to thin get their nodes
ThinOrders == {<<"n1", "n2", "n3", "n4", "n5">>, <<"n4", "n2", "n5", "n1", "n3">>}

\* network.add_node(node), for the next node of one of the orders
ThinAdd(node) ==
    /\ \E order \in ThinOrders :
           /\ Len(nodes) < Len(order)
           /\ SubSeq(order, 1, Len(nodes) + 1) = Append(nodes, node)
    /\ GraphAdd(node)

\* generate_network line 52: thin_connections(network, 3)
ThinConnections ==
    \E r \in {thin_connections(nodes, connections, 3)} :
        /\ query = NoQuery
        /\ query' = [kind |-> "thin_connections", before |-> connections,
                     status |-> r.status]
        /\ connections' = r.conns
        /\ UNCHANGED <<nodes, lastOp, gen>>

\* networks of up to five nodes whose edges are all bidirectional, then thinned
NextThin ==
    \/ \E node \in NodeObjs \cup MoreObjs : ThinAdd(node)
    \/ \E self \in NodeObjs \cup MoreObjs, other \in NodeObjs \cup MoreObjs :
           /\ self # other
           /\ IsMember(nodes, self) /\ IsMember(nodes, other)
           /\ GraphConnect(self, other, TRUE, MaxThinEdges)
    \/ ThinConnections

SpecThin == Init /\ [][NextThin]_vars

\* C13: degree cap: in the state right after thin_connections(network, 3), for
\* any input network whose edges are all bidirectional, every node of the
\* network has at most 3 connections.
C13_DegreeCap ==
    (/\ query.kind = "thin_connections"
     /\ query.status = "returned"
     /\ AllBidirectional(query.before))
        => \A node \in Members(nodes) : Degree(connections, node) <= 3

\* a node that had four neighbours has three after the thinning, one of the
\* edges between two other nodes being untouched
C13_Witness ==
    /\ query.kind = "thin_connections"
    /\ query.status = "returned"
    /\ \E node \in Members(nodes), other \in Members(nodes) :
           /\ Len(query.before[node]) = 4
           /\ Degree(connections, node) = 3
           /\ other # node
           /\ Degree(connections, other) = 2
           /\ Len(query.before[other]) = 2

----------------------------------------------------------------------------
(* generate_network (generate_network.py 14-59) and its phases.            *)
(*                                                                         *)
(* `gen` holds the arguments and the locals of the run, the Node objects   *)
(* it has built (their locations and their connections) and the place the  *)
(* run is at.  The modelled values of max_distance are even, so that       *)
(* max_distance * 0.5 is an integer, and they keep every distance away     *)
(* from the two limits max_distance * 0.5 and max_distance * 1.1, so that  *)
(* the rounding of the floats decides no comparison.  The random draws     *)
(* modelled are the ones that keep every point on the equator, where the   *)
(* distances are exact.                                                    *)

\* the longest path the belt walk and the loop closing are followed to
MaxPath == 6

\* max_distance * 0.5
MinDistance(max_distance) == max_distance \div 2

\* d <= max_distance * 1.1
WithinReach(d, max_distance) == 10 * d <= 11 * max_distance

\* is_too_close_to_existing comparing with the last existing node only
is_too_close_to_existing_LastOnly(new_location, existing, min_distance) ==
    /\ existing # <<>>
    /\ get_distance_to_point(new_location, existing[Len(existing)]) <= min_distance

\* is_too_close_to_existing, on the locations of the existing nodes
is_too_close_to_existing(new_location, existing, min_distance) ==
    \E i \in DOMAIN existing :
        get_distance_to_point(new_location, existing[i]) <= min_distance

\* lines 72-81: the movement vectors
DIRECTIONS(direction, max_distance) ==
    LET half == max_distance \div 2
    IN  CASE direction = "f" -> <<max_distance, 0>>
          [] direction = "f+u" -> <<half, half>>
          [] direction = "f+d" -> <<half, -half>>
          [] direction = "u" -> <<0, max_distance>>
          [] direction = "d" -> <<0, -max_distance>>
          [] direction = "b+u" -> <<-half, half>>
          [] direction = "b+d" -> <<-half, -half>>
          [] direction = "b" -> <<-max_distance, 0>>

\* the keys of DIRECTIONS
AllDirections == {"f", "f+u", "f+d", "u", "d", "b+u", "b+d", "b"}

\* random.choices over the weights of lines 94-103: with deviation_bias 0 every
\* weight but that of "f" is 0, with a positive one every direction can be
\* drawn
WalkDraws(deviation_bias) == IF deviation_bias = 0 THEN {"f"} ELSE AllDirections

\* int(360 * return_threshold_ratio), for the default ratio 0.9
threshold == (360 * 9) \div 10

\* distance(point, (360, 0)) > max_distance, for the planar distance of line 283
FarFromEnd(point, max_distance) ==
    \/ max_distance < 0
    \/ (point[1] - 360) * (point[1] - 360) + point[2] * point[2]
           > max_distance * max_distance

\* lines 118-126: the next point of the loop closing
ClosingPoint(last, max_distance) ==
    IF Abs(last[2]) > 360 - last[1]
    THEN IF last[2] > 0
         THEN <<last[1], last[2] - max_distance>>
         ELSE <<last[1], last[2] + max_distance>>
    ELSE <<last[1] + max_distance, last[2]>>

\* lines 19-25: the locations of the nodes made of the points of the path
RECURSIVE PlaceLoop(_, _, _)
PlaceLoop(path, locations, min_distance) ==
    IF path = <<>>
    THEN locations
    ELSE LET point == Head(path)
             new_location == [latitude |-> point[2], longitude |-> point[1]]
         IN  IF ~is_too_close_to_existing(new_location, locations, min_distance)
             THEN PlaceLoop(Tail(path), Append(locations, new_location), min_distance)
             ELSE PlaceLoop(Tail(path), locations, min_distance)

\* the k-th Node object of the run
GenNode(k) == GenNames[k]

\* Node(location) for each of the locations in turn: the new objects, their
\* locations and their empty connections added to those of the run
WithNodes(g, locations) ==
    LET n == Cardinality(DOMAIN g.location)
        new == {GenNode(n + k) : k \in DOMAIN locations}
        loc(o) == locations[CHOOSE k \in DOMAIN locations : GenNode(n + k) = o]
    IN  [g EXCEPT
            !.location = [o \in DOMAIN g.location \cup new |->
                             IF o \in new THEN loc(o) ELSE g.location[o]],
            !.conns = [o \in DOMAIN g.conns \cup new |->
                          IF o \in new THEN <<>> ELSE g.conns[o]]]

\* the run as generate_network starts it: line 15 and lines 83-87
StartOfRun(num_nodes, equator_band_degrees, max_distance, deviation_bias) ==
    [pc |-> "walk", error |-> "none",
     num_nodes |-> num_nodes, equator_band_degrees |-> equator_band_degrees,
     max_distance |-> max_distance, deviation_bias |-> deviation_bias,
     x |-> 0, y |-> 0, path |-> <<<<0, 0>>>>,
     nodes |-> <<>>, network |-> <<>>, possibleNodes |-> <<>>,
     location |-> <<>>, conns |-> <<>>,
     phases |-> <<"generate_path_with_mild_vertical_bias">>, passes |-> 0]

NumNodes == {0, 1}

EquatorBands == {0, 150}

MaxDistances == {-100, 0, 100, 300}

DeviationBiases == {0, 1}

GenerateNetwork(num_nodes, equator_band_degrees, max_distance, deviation_bias) ==
    /\ gen.pc = "idle"
    /\ gen' = StartOfRun(num_nodes, equator_band_degrees, max_distance,
                         deviation_bias)
    /\ UNCHANGED <<nodes, connections, lastOp, query>>

\* one turn of the loop of lines 89-114
WalkStep(direction) ==
    /\ gen.pc = "walk"
    /\ gen.x < threshold
    /\ Len(gen.path) < MaxPath
    /\ direction \in WalkDraws(gen.deviation_bias)
    /\ LET d == DIRECTIONS(direction, gen.max_distance)
           x == gen.x + d[1]
           y == gen.y + d[2]
       IN  gen' = [gen EXCEPT !.x = x, !.y = y, !.path = Append(@, <<x, y>>),
                              !.pc = IF x < threshold THEN "walk" ELSE "close"]
    /\ UNCHANGED <<nodes, connections, lastOp, query>>

\* one turn of the loop of lines 116-128
CloseStep ==
    /\ gen.pc = "close"
    /\ FarFromEnd(gen.path[Len(gen.path)], gen.max_distance)
    /\ Len(gen.path) < MaxPath
    /\ LET p == ClosingPoint(gen.path[Len(gen.path)], gen.max_distance)
       IN  gen' = [gen EXCEPT !.x = p[1], !.y = p[2], !.path = Append(@, p)]
    /\ UNCHANGED <<nodes, connections, lastOp, query>>

\* the return of the path and lines 18-25: the belt nodes
PlaceBeltNodes ==
    /\ gen.pc = "close"
    /\ ~FarFromEnd(gen.path[Len(gen.path)], gen.max_distance)
    /\ \E locations \in {PlaceLoop(gen.path, <<>>, MinDistance(gen.max_distance))} :
           gen' = [WithNodes(gen, locations) EXCEPT
                       !.pc = "belt",
                       !.phases = Append(@, "belt"),
                       !.nodes = [k \in DOMAIN locations |-> GenNode(k)]]
    /\ UNCHANGED <<nodes, connections, lastOp, query>>

(* node.connect_to(other_node, True, True) of line 31: connect_to takes    *)
(* other_node and bidirectional, and the call with one argument more       *)
(* raises TypeError before anything is connected.                          *)
BeltConnectCall(conns, node, other_node) ==
    [status |-> "TypeError", conns |-> conns]

\* lines 27-31: the pairs of belt nodes in the order of the two loops, up to
\* the first call that raises
RECURSIVE BeltConnectLoop(_, _, _, _)
BeltConnectLoop(conns, belt, pairs, max_distance) ==
    IF pairs = <<>>
    THEN [status |-> "done", conns |-> conns]
    ELSE LET node == belt[Head(pairs)[1]]
             other_node == belt[Head(pairs)[2]]
         IN  IF /\ ~NodeEq(node, other_node)
                /\ WithinReach(get_distance_to(node, other_node), max_distance)
             THEN CHOOSE r \in {IF c.status = "done"
                                THEN BeltConnectLoop(c.conns, belt, Tail(pairs),
                                                     max_distance)
                                ELSE c :
                                   c \in {BeltConnectCall(conns, node, other_node)}} :
                      TRUE
             ELSE BeltConnectLoop(conns, belt, Tail(pairs), max_distance)

\* the pairs (i, j) of positions of a list of n nodes, in the order of two
\* nested loops over the list
PairsOf(n) == [k \in 1..(n * n) |-> <<((k - 1) \div n) + 1, ((k - 1) % n) + 1>>]

\* network.add_node(node) for the nodes in turn
RECURSIVE AddAll(_, _)
AddAll(net, list) ==
    IF list = <<>> THEN net ELSE AddAll(add_node(net, Head(list)).nodes, Tail(list))

\* lines 27-34: the connection of the belt and the network of the belt nodes
ConnectBelt ==
    /\ gen.pc = "belt"
    /\ \E r \in {BeltConnectLoop(gen.conns, gen.nodes, PairsOf(Len(gen.nodes)),
                                 gen.max_distance)} :
           gen' = IF r.status = "done"
                  THEN [gen EXCEPT !.pc = "select", !.conns = r.conns,
                                   !.network = AddAll(<<>>, gen.nodes)]
                  ELSE [gen EXCEPT !.pc = "raised", !.error = r.status,
                                   !.conns = r.conns]
    /\ UNCHANGED <<nodes, connections, lastOp, query>>


----------------------------------------------------------------------------
(* generate_grid (generate_network.py 134-151), for a max_distance of 2    *)
(* or more: with 0 the range of line 142 raises ValueError and with a      *)
(* negative one the loop of line 141 never ends, and generate_network      *)
(* gets to neither                                                         *)

\* lines 142-148: the candidates of the row at latitude y
GridRow(y, offset, max_distance) ==
    LET xs == [k \in 1..((359 \div max_distance) + 1) |->
                  -180 + (k - 1) * max_distance
                      + (IF offset THEN max_distance \div 2 ELSE 0)]
        kept == SelectSeq(xs, LAMBDA x : x <= 180)
    IN  [k \in DOMAIN kept |-> [latitude |-> y, longitude |-> kept[k]]]

\* lines 141-150: the rows from latitude y down to -equator_band_degrees
RECURSIVE GridRows(_, _, _, _)
GridRows(y, offset, equator_band_degrees, max_distance) ==
    IF y >= -equator_band_degrees
    THEN GridRow(y, offset, max_distance)
             \o GridRows(y - MinDistance(max_distance), ~offset,
                         equator_band_degrees, max_distance)
    ELSE <<>>

generate_grid(equator_band_degrees, max_distance) ==
    GridRows(equator_band_degrees, TRUE, equator_band_degrees, max_distance)

----------------------------------------------------------------------------
(* pick_random_nodes (generate_network.py 154-195)                         *)

Minimum(a, b) == IF a < b THEN a ELSE b

\* random.sample(candidates, k): the lists of k different entries of the
\* candidates, of which the model draws the ones that lie on the equator
Samples(candidates, k) ==
    {s \in [1..k -> {i \in DOMAIN candidates : candidates[i].latitude = 0}] :
        \A i \in 1..k, j \in 1..k : i # j => s[i] # s[j]}

\* lines 161-174: the locations of the nodes made of the sampled positions
RECURSIVE FilterLoop(_, _, _, _, _)
FilterLoop(possible_positions, network_locations, selected, num_nodes, min_distance) ==
    IF possible_positions = <<>>
    THEN selected
    ELSE LET position == Head(possible_positions)
         IN  IF \/ is_too_close_to_existing(position, network_locations, min_distance)
                \/ is_too_close_to_existing(position, selected, min_distance)
             THEN FilterLoop(Tail(possible_positions), network_locations, selected,
                             num_nodes, min_distance)
             ELSE IF Len(selected) + 1 >= num_nodes
                  THEN Append(selected, position)
                  ELSE FilterLoop(Tail(possible_positions), network_locations,
                                  Append(selected, position), num_nodes, min_distance)

\* lines 155-174 with the sample drawn: possibleNodes
SelectFrom(g, possible_positions) ==
    LET network_locations == [k \in DOMAIN g.network |-> g.location[g.network[k]]]
        selected == FilterLoop(possible_positions, network_locations, <<>>,
                               g.num_nodes, MinDistance(g.max_distance))
        n == Cardinality(DOMAIN g.location)
    IN  [WithNodes(g, selected) EXCEPT
            !.pc = "attach",
            !.phases = Append(@, "pick_random_nodes"),
            !.possibleNodes = [k \in DOMAIN selected |-> GenNode(n + k)]]

\* the inner loop of lines 182-189 that takes the first node of the network
RECURSIVE FirstWithinReach_Any(_, _, _)
FirstWithinReach_Any(node, others, max_distance) ==
    IF others = <<>> THEN <<>> ELSE <<Head(others)>>

\* the inner loop of lines 182-189: the first node of the network within reach
\* of the pending node, or <<>>
RECURSIVE FirstWithinReach(_, _, _)
FirstWithinReach(node, others, max_distance) ==
    IF others = <<>>
    THEN <<>>
    ELSE IF WithinReach(get_distance_to(node, Head(others)), max_distance)
         THEN <<Head(others)>>
         ELSE FirstWithinReach(node, Tail(others), max_distance)

\* lines 181-189: one pass over possibleNodes; `admitted` is nodes_to_remove
RECURSIVE AttachPass(_, _, _, _, _)
AttachPass(pending, network, conns, admitted, max_distance) ==
    IF pending = <<>>
    THEN [network |-> network, conns |-> conns, admitted |-> admitted]
    ELSE LET node == Head(pending)
             found == FirstWithinReach(node, network, max_distance)
         IN  IF found = <<>>
             THEN AttachPass(Tail(pending), network, conns, admitted, max_distance)
             ELSE CHOOSE r \in
                      {AttachPass(Tail(pending), add_node(network, node).nodes, c,
                                  admitted \cup {node}, max_distance) :
                           c \in {connect_to(conns, node, found[1], TRUE).conns}} :
                      TRUE

\* a single pass, whatever it admits
AttachLoop_OnePass(possibleNodes, network, conns, passes, max_distance) ==
    CHOOSE r \in
        {[network |-> p.network, conns |-> p.conns,
          possibleNodes |-> SelectSeq(possibleNodes, LAMBDA o : o \notin p.admitted),
          passes |-> passes + 1] :
            p \in {AttachPass(possibleNodes, network, conns, {}, max_distance)}} :
        TRUE

\* the passes up to the one that admits no node, and one pass more
RECURSIVE AttachLoop_ExtraPass(_, _, _, _, _)
AttachLoop_ExtraPass(possibleNodes, network, conns, passes, max_distance) ==
    CHOOSE r \in
        {IF p.admitted = {}
         THEN [network |-> p.network, conns |-> p.conns,
               possibleNodes |-> possibleNodes, passes |-> passes + 2]
         ELSE AttachLoop_ExtraPass(SelectSeq(possibleNodes,
                                             LAMBDA o : o \notin p.admitted),
                                   p.network, p.conns, passes + 1, max_distance) :
            p \in {AttachPass(possibleNodes, network, conns, {}, max_distance)}} :
        TRUE

\* lines 178-192: the passes up to the one that admits no node
RECURSIVE AttachLoop(_, _, _, _, _)
AttachLoop(possibleNodes, network, conns, passes, max_distance) ==
    CHOOSE r \in
        {IF p.admitted = {}
         THEN [network |-> p.network, conns |-> p.conns,
               possibleNodes |-> possibleNodes, passes |-> passes + 1]
         ELSE AttachLoop(SelectSeq(possibleNodes, LAMBDA o : o \notin p.admitted),
                         p.network, p.conns, passes + 1, max_distance) :
            p \in {AttachPass(possibleNodes, network, conns, {}, max_distance)}} :
        TRUE

\* lines 36 and 155-174: the candidate grid, the sample and the filter
SelectCandidates ==
    /\ gen.pc = "select"
    /\ \E candidates \in {generate_grid(gen.equator_band_degrees, gen.max_distance)} :
           \E s \in Samples(candidates, Minimum(gen.num_nodes * 2, Len(candidates))) :
               gen' = SelectFrom([gen EXCEPT !.phases = Append(@, "generate_grid")],
                                 [k \in DOMAIN s |-> candidates[s[k]]])
    /\ UNCHANGED <<nodes, connections, lastOp, query>>

\* lines 176-195
AttachCandidates ==
    /\ gen.pc = "attach"
    /\ \E r \in {AttachLoop(gen.possibleNodes, gen.network, gen.conns, 0,
                            gen.max_distance)} :
           gen' = [gen EXCEPT !.pc = "augment", !.network = r.network,
                              !.conns = r.conns, !.possibleNodes = r.possibleNodes,
                              !.passes = r.passes]
    /\ UNCHANGED <<nodes, connections, lastOp, query>>

----------------------------------------------------------------------------
(* add_additional_connections (generate_network.py 198-220)                *)

\* lines 203-206
NearNodes(conns, node, network, max_distance) ==
    SelectSeq(network,
              LAMBDA other_node :
                  /\ ~NodeEq(node, other_node)
                  /\ WithinReach(get_distance_to(node, other_node), max_distance)
                  /\ ~is_connected_to(conns, node, other_node))

\* lines 215-219; twice_should_connect is twice the float should_connect
RECURSIVE ConnectNear(_, _, _, _, _)
ConnectNear(conns, node, near_nodes, twice_should_connect, max_distance) ==
    IF near_nodes = <<>>
    THEN conns
    ELSE LET other_node == Head(near_nodes)
         IN  IF /\ ~NodeEq(node, other_node)
                /\ twice_should_connect > 0
                /\ WithinReach(get_distance_to(node, other_node), max_distance)
                /\ ~is_connected_to(conns, node, other_node)
             THEN CHOOSE r \in
                      {ConnectNear(c, node, Tail(near_nodes),
                                   twice_should_connect - 2, max_distance) :
                           c \in {connect_to(conns, node, other_node, TRUE).conns}} :
                      TRUE
             ELSE ConnectNear(conns, node, Tail(near_nodes), twice_should_connect,
                              max_distance)

\* lines 200-219: less[k] is what the draw of lines 208-214 takes off
\* should_connect for the k-th node: 2, 1 or 0
RECURSIVE AugmentLoop(_, _, _, _, _)
AugmentLoop(conns, all_nodes, k, less, max_distance) ==
    IF k > Len(all_nodes)
    THEN conns
    ELSE CHOOSE r \in
             {AugmentLoop(c, all_nodes, k + 1, less, max_distance) :
                  c \in {LET near_nodes == NearNodes(conns, all_nodes[k], all_nodes,
                                                     max_distance)
                         IN  ConnectNear(conns, all_nodes[k], near_nodes,
                                         Len(near_nodes) - 2 * less[k],
                                         max_distance)}} :
             TRUE

AddAdditionalConnections ==
    /\ gen.pc = "augment"
    /\ \E less \in [DOMAIN gen.network -> {0, 1, 2}] :
           gen' = [gen EXCEPT !.pc = "pull",
                              !.phases = Append(@, "add_additional_connections"),
                              !.conns = AugmentLoop(gen.conns, gen.network, 1, less,
                                                    gen.max_distance)]
    /\ UNCHANGED <<nodes, connections, lastOp, query>>

----------------------------------------------------------------------------
(* random_pull_nodes (generate_network.py 223-251): Node has no method     *)
(* translate, so line 231 raises AttributeError for the first node of the  *)
(* network before anything is moved; an empty network is returned as it   *)
(* is, and goes through the last two phases                                *)

RandomPullNodes ==
    /\ gen.pc = "pull"
    /\ gen' = IF gen.network = <<>>
              THEN [gen EXCEPT !.pc = "thin",
                               !.phases = Append(@, "random_pull_nodes")]
              ELSE [gen EXCEPT !.pc = "raised", !.error = "AttributeError",
                               !.phases = Append(@, "random_pull_nodes")]
    /\ UNCHANGED <<nodes, connections, lastOp, query>>

----------------------------------------------------------------------------
(* reconnect_orphaned_nodes (generate_network.py 272-279)                  *)

\* lines 275-277: the loop over other_node for an orphan; the orphan itself
\* is one of the nodes gone through
RECURSIVE ReconnectOthers(_, _, _, _)
ReconnectOthers(conns, node, others, max_distance) ==
    IF others = <<>>
    THEN conns
    ELSE LET other_node == Head(others)
         IN  IF /\ WithinReach(get_distance_to(node, other_node), max_distance)
                /\ ~is_connected_to(conns, node, other_node)
             THEN CHOOSE r \in
                      {ReconnectOthers(c, node, Tail(others), max_distance) :
                           c \in {connect_to(conns, node, other_node, TRUE).conns}} :
                      TRUE
             ELSE ReconnectOthers(conns, node, Tail(others), max_distance)

\* lines 273-277: the loop over the nodes; find_path_to returns None, which
\* is false, when there is no path, and a pair, which is true, otherwise
RECURSIVE ReconnectLoop(_, _, _, _)
ReconnectLoop(conns, net, todo, max_distance) ==
    IF todo = <<>>
    THEN conns
    ELSE LET node == Head(todo)
         IN  CHOOSE r \in
                 {ReconnectLoop(c, net, Tail(todo), max_distance) :
                      c \in {IF find_path_to(conns, node, net[1], 1).status # "path"
                             THEN ReconnectOthers(conns, node, net, max_distance)
                             ELSE conns}} :
                 TRUE

reconnect_orphaned_nodes(net, conns, max_distance) ==
    ReconnectLoop(conns, net, net, max_distance)

----------------------------------------------------------------------------
(* The last phases and the runs of generate_network                        *)

\* line 49: thin_connections(network, 3)
ThinPhase ==
    /\ gen.pc = "thin"
    /\ \E r \in {thin_connections(gen.network, gen.conns, 3)} :
           /\ r.status = "returned"
           /\ gen' = [gen EXCEPT !.pc = "reconnect", !.conns = r.conns,
                                  !.phases = Append(@, "thin_connections")]
    /\ UNCHANGED <<nodes, connections, lastOp, query>>

\* lines 52-59: reconnect_orphaned_nodes(network, max_distance) and the return
ReconnectPhase ==
    /\ gen.pc = "reconnect"
    /\ gen' = [gen EXCEPT !.pc = "returned",
                          !.conns = reconnect_orphaned_nodes(gen.network, gen.conns,
                                                             gen.max_distance),
                          !.phases = Append(@, "reconnect_orphaned_nodes")]
    /\ UNCHANGED <<nodes, connections, lastOp, query>>

\* the runs of generate_network, for the draws of the walk that keep it on the
\* equator; none of them gets to line 49 with a node in the network
NextGen ==
    \/ \E num_nodes \in NumNodes, equator_band_degrees \in EquatorBands,
          max_distance \in MaxDistances, deviation_bias \in DeviationBiases :
           GenerateNetwork(num_nodes, equator_band_degrees, max_distance,
                           deviation_bias)
    \/ \E direction \in {"f", "b"} : WalkStep(direction)
    \/ CloseStep
    \/ PlaceBeltNodes
    \/ ConnectBelt
    \/ SelectCandidates
    \/ AttachCandidates
    \/ AddAdditionalConnections
    \/ RandomPullNodes

SpecGen == Init /\ [][NextGen]_vars


\* the call has ended: with the return of line 59 or with an exception
Ended(g) == g.pc \in {"returned", "raised"}

\* C18 as stated: malformed generation parameters fail fast: generate_network
\* called with max_distance <= 0 ends with an error before the belt walk takes
\* a step: it is never in the walk or in the loop closing with a path longer
\* than the starting point, and it returns no network.
C18_FailFast ==
    (gen.pc # "idle" /\ gen.max_distance <= 0)
        => \/ gen.pc = "raised"
           \/ gen.pc = "walk" /\ Len(gen.path) = 1

\* C15 as stated: generated node locations are in range: every node that
\* generate_network builds for its network has its latitude in [-45, 45] and
\* its longitude in (-180, 180], the longitude of a belt node being the x of
\* its path point reduced modulo 360.
C15_NodesInRange ==
    gen.pc # "idle"
        => \A o \in DOMAIN gen.location :
               /\ -45 <= gen.location[o].latitude /\ gen.location[o].latitude <= 45
               /\ InRangeLongitude(gen.location[o].longitude)

\* every node of the network has a path to the first node of the network
AllReachReference(g) ==
    \A k \in DOMAIN g.network :
        find_path_to(g.conns, g.network[k], g.network[1], 1).status = "path"

\* C12 as stated: reachability from reference: for every choice of the random
\* draws generate_network ends by returning a network in which every member
\* node has a path of edges to the first node of the network.
C12_ReturnsConnected ==
    (gen.pc # "idle" /\ Ended(gen))
        => gen.pc = "returned" /\ AllReachReference(gen)


----------------------------------------------------------------------------
(* The phases as functions of a working network built by hand: nodes on    *)
(* the equator, joined by edges that are within reach                      *)

MaxHandNodes == 2

HandLongitudes == {0, 54, 108, 162}

HandMaxDistances == {50, 100}

HandNumNodes == {1, 2}

\* the arguments the phases are called with
HandStart(num_nodes, max_distance) ==
    /\ gen.pc = "idle"
    /\ gen' = [StartOfRun(num_nodes, 0, max_distance, 0) EXCEPT
                   !.pc = "hand", !.phases = <<>>]
    /\ UNCHANGED <<nodes, connections, lastOp, query>>

\* Node(GeoLocation(0, longitude)), put in the list of nodes and in the network
HandNode(longitude) ==
    /\ gen.pc = "hand"
    /\ Len(gen.network) < MaxHandNodes
    /\ \A o \in DOMAIN gen.location : gen.location[o].longitude # longitude
    /\ \E g \in {WithNodes(gen, <<[latitude |-> 0, longitude |-> longitude]>>)} :
           \E node \in {GenNode(Cardinality(DOMAIN g.location))} :
               gen' = [g EXCEPT !.nodes = Append(@, node),
                                !.network = add_node(@, node).nodes]
    /\ UNCHANGED <<nodes, connections, lastOp, query>>

\* node.connect_to(other_node) for two nodes within reach of each other
HandConnect(node, other_node) ==
    /\ gen.pc = "hand"
    /\ node \in DOMAIN gen.location /\ other_node \in DOMAIN gen.location
    /\ node # other_node
    /\ WithinReach(get_distance_to(node, other_node), gen.max_distance)
    /\ \E r \in {connect_to(gen.conns, node, other_node, TRUE)} :
           /\ r.ret
           /\ gen' = [gen EXCEPT !.conns = r.conns]
    /\ UNCHANGED <<nodes, connections, lastOp, query>>

\* the nodes built, not yet connected, taken as the belt nodes of lines 27-34
HandBelt ==
    /\ gen.pc = "hand"
    /\ \A o \in DOMAIN gen.conns : gen.conns[o] = <<>>
    /\ gen' = [gen EXCEPT !.pc = "belt", !.phases = Append(@, "belt")]
    /\ UNCHANGED <<nodes, connections, lastOp, query>>

\* the lists of up to two different places of HandLongitudes
HandSamples ==
    {<<>>} \cup {<<a>> : a \in HandLongitudes}
        \cup {<<p[1], p[2]>> : p \in {q \in HandLongitudes \X HandLongitudes :
                                         q[1] # q[2]}}

\* pick_random_nodes with possible_positions drawn by hand
HandSelect(sample) ==
    /\ gen.pc \in {"hand", "select"}
    /\ gen' = SelectFrom(gen, [k \in DOMAIN sample |->
                                  [latitude |-> 0, longitude |-> sample[k]]])
    /\ UNCHANGED <<nodes, connections, lastOp, query>>

NextPhases ==
    \/ \E num_nodes \in HandNumNodes, max_distance \in HandMaxDistances :
           HandStart(num_nodes, max_distance)
    \/ \E longitude \in HandLongitudes : HandNode(longitude)
    \/ \E node \in GenObjs, other_node \in GenObjs : HandConnect(node, other_node)
    \/ HandBelt
    \/ ConnectBelt
    \/ \E sample \in HandSamples : HandSelect(sample)
    \/ AttachCandidates
    \/ AddAdditionalConnections
    \/ RandomPullNodes
    \/ ThinPhase
    \/ ReconnectPhase

SpecPhases == Init /\ [][NextPhases]_vars

\* every edge of the nodes of the run joins two nodes within max_distance * 1.1
EdgesWithinReach(g) ==
    \A o \in DOMAIN g.conns : \A k \in DOMAIN g.conns[o] :
        WithinReach(get_distance_to(o, g.conns[o][k]), g.max_distance)

----------------------------------------------------------------------------
(* The connection of the belt (generate_network.py 27-34)                  *)

\* two belt nodes are joined in both directions
JoinedBothWays(g, a, b) ==
    IsMember(get_connected_nodes(g.conns, a), b)
        /\ IsMember(get_connected_nodes(g.conns, b), a)

\* C26 as stated: belt connection is complete and bidirectional: the phase
\* completes without error for every belt, the belts with two nodes within
\* 1.1 x max_distance of each other included, and when it has completed two
\* different belt nodes are adjacent, each to the other, exactly when they
\* are within 1.1 x max_distance of each other.
C26_BeltConnected ==
    /\ (gen.pc = "raised" => gen.error # "TypeError")
    /\ gen.pc = "select"
           => \A i, j \in DOMAIN gen.nodes :
                  i # j => (JoinedBothWays(gen, gen.nodes[i], gen.nodes[j])
                               <=> WithinReach(get_distance_to(gen.nodes[i],
                                                               gen.nodes[j]),
                                               gen.max_distance))

----------------------------------------------------------------------------
(* The order of the phases (generate_network.py 14-59)                     *)

\* the phases in the order of the calls of lines 16-52
AllPhases ==
    <<"generate_path_with_mild_vertical_bias", "belt", "generate_grid",
      "pick_random_nodes", "add_additional_connections", "random_pull_nodes",
      "thin_connections", "reconnect_orphaned_nodes">>

\* s is the beginning of t
IsPrefix(s, t) == Len(s) <= Len(t) /\ s = SubSeq(t, 1, Len(s))

\* C30 as stated: phase ordering: every run executes the belt walk, the belt
\* placement and connection, the candidate grid, the attachment, the
\* augmentation, the jitter, the degree capping and the orphan reconstitution
\* each once and in that order: the phases a run has begun are a beginning of
\* that list, and a run that has ended has returned after all eight.
C30_PhaseOrder ==
    gen.pc # "idle"
        => /\ IsPrefix(gen.phases, AllPhases)
           /\ Ended(gen) => (gen.pc = "returned" /\ gen.phases = AllPhases)

\* the order alone: the phases a run has begun are a beginning of the list
C30_OrderOnly == gen.pc # "idle" => IsPrefix(gen.phases, AllPhases)

----------------------------------------------------------------------------
(* The jitter (generate_network.py 223-251)                                *)

\* C22 as stated: jitter revert is exact: random_pull_nodes makes its
\* translation attempts on every node and takes a rejected one back, so the
\* phase ends without an exception, with the nodes it was given, and no
\* adjacency set changes in it.
C22_JitterReverts ==
    [][gen.pc = "pull"
           => /\ gen'.pc # "raised"
              /\ gen'.conns = gen.conns
              /\ gen'.network = gen.network
              /\ DOMAIN gen'.location = DOMAIN gen.location]_vars

----------------------------------------------------------------------------
(* The minimum separation (generate_network.py 7-25, 159-173)              *)

\* two nodes the run has built, the accepted candidates included, are more
\* than 0.5 x max_distance apart
Separated(g) ==
    \A a, b \in DOMAIN g.location :
        a # b => 2 * get_distance_to(a, b) > g.max_distance

----------------------------------------------------------------------------
(* The end of the attachment (generate_network.py 176-195)                 *)

\* the members the attachment has admitted: those after the nodes the
\* network had before
Admitted(g) == (Len(g.nodes) + 1)..Len(g.network)

\* C23: phase 4 reaches a fixed point: when the attachment has ended, no
\* pending candidate is within 1.1 x max_distance of a member of the network;
\* every admitted candidate is joined to a member that was in the network
\* before it; no candidate is a member twice; and the candidates that never
\* connect are not members, have no edge and raise no error.
C23_FixedPoint ==
    gen.pc = "augment"
        => /\ gen.error = "none"
           /\ SubSeq(gen.network, 1, Len(gen.nodes)) = gen.nodes
           /\ \A k \in Admitted(gen) :
                  \E j \in 1..(k - 1) :
                      /\ Adjacent(gen.conns, gen.network[k], gen.network[j])
                      /\ Adjacent(gen.conns, gen.network[j], gen.network[k])
           /\ \A j, k \in DOMAIN gen.network : j # k => gen.network[j] # gen.network[k]
           /\ \A i \in DOMAIN gen.possibleNodes :
                  /\ ~IsMember(gen.network, gen.possibleNodes[i])
                  /\ gen.conns[gen.possibleNodes[i]] = <<>>
                  /\ \A k \in DOMAIN gen.network :
                         ~WithinReach(get_distance_to(gen.possibleNodes[i],
                                                      gen.network[k]),
                                      gen.max_distance)

\* the attachment has ended with a candidate admitted and another still
\* pending
C23_Witness ==
    /\ gen.pc = "augment"
    /\ Len(gen.network) > Len(gen.nodes)
    /\ gen.possibleNodes # <<>>

\* C24: phase 4 terminates: the attachment ends, after at least one pass and
\* at most one pass more than the number of candidates it has admitted, which
\* is at most one more than the number of accepted candidates.
C24_Passes ==
    gen.pc = "augment"
        => /\ 1 <= gen.passes
           /\ gen.passes <= Cardinality(Admitted(gen)) + 1
           /\ gen.passes <= Cardinality(Admitted(gen)) + Len(gen.possibleNodes) + 1

\* the attachment has ended after two passes of one admission each and a
\* third pass that admitted nothing
C24_Witness ==
    /\ gen.pc = "augment"
    /\ gen.passes = 3
    /\ Cardinality(Admitted(gen)) = 2
    /\ gen.possibleNodes = <<>>

----------------------------------------------------------------------------
(* reconnect_orphaned_nodes on networks built by hand                     *)

\* the largest number of adjacency entries of a network given to
\* reconnect_orphaned_nodes
MaxOrphanEdges == 4

\* the orders in which the networks get their nodes
ReconnectOrders == {<<"n1", "n2", "n3", "n4">>, <<"n3", "n1", "n4", "n2">>}

ReconnectMaxDistances == {15, 25}

\* network.add_node(node), for the next node of one of the orders
ReconnectAdd(node) ==
    /\ \E order \in ReconnectOrders :
           /\ Len(nodes) < Len(order)
           /\ SubSeq(order, 1, Len(nodes) + 1) = Append(nodes, node)
    /\ GraphAdd(node)

\* generate_network line 55: reconnect_orphaned_nodes(network, max_distance)
ReconnectOrphanedNodes(max_distance) ==
    \E r \in {reconnect_orphaned_nodes(nodes, connections, max_distance)} :
        /\ query = NoQuery
        /\ query' = [kind |-> "reconnect_orphaned_nodes", before |-> connections,
                     max_distance |-> max_distance]
        /\ connections' = r
        /\ UNCHANGED <<nodes, lastOp, gen>>

\* networks of up to four nodes whose edges are all bidirectional and join
\* two different members, then reconnected
NextReconnect ==
    \/ \E node \in NodeObjs : ReconnectAdd(node)
    \/ \E self \in NodeObjs, other \in NodeObjs :
           /\ self # other
           /\ IsMember(nodes, self) /\ IsMember(nodes, other)
           /\ GraphConnect(self, other, TRUE, MaxOrphanEdges)
    \/ \E max_distance \in ReconnectMaxDistances : ReconnectOrphanedNodes(max_distance)

SpecReconnect == Init /\ [][NextReconnect]_vars

\* the node had no path to the first node of the network
Orphan(conns, net, node) == find_path_to(conns, node, net[1], 1).status # "path"

\* C21 as stated: orphan reconstitution adds only edges to other nodes: after
\* reconnect_orphaned_nodes every added adjacency entry joins two different
\* nodes, one of them an orphan of the network it was given, that are within
\* 1.1 x max_distance of each other, and no node has itself in its adjacency
\* set.
C21_OnlyOtherNodes ==
    query.kind = "reconnect_orphaned_nodes"
        => \A a \in Members(nodes) :
               /\ ~Adjacent(connections, a, a)
               /\ \A b \in Members(nodes) :
                      (Adjacent(connections, a, b) /\ ~Adjacent(query.before, a, b))
                          => /\ a # b
                             /\ WithinReach(get_distance_to(a, b), query.max_distance)
                             /\ \/ Orphan(query.before, nodes, a)
                                \/ Orphan(query.before, nodes, b)

\* the added entries that join two different nodes are as the claim says
C21_EdgesToOthers ==
    query.kind = "reconnect_orphaned_nodes"
        => \A a \in Members(nodes), b \in Members(nodes) :
               (a # b /\ Adjacent(connections, a, b) /\ ~Adjacent(query.before, a, b))
                   => /\ WithinReach(get_distance_to(a, b), query.max_distance)
                      /\ \/ Orphan(query.before, nodes, a)
                         \/ Orphan(query.before, nodes, b)

----------------------------------------------------------------------------
(* generate_grid called by hand, for even values of max_distance, whose    *)
(* half is an integer                                                      *)

GridBands == {0, 5, 10, 15, 20, 25, 30, 35, 40, 45}

GridMaxDistances == {16, 40, 48, 80, 100, 144, 200, 240, 300, 360, 720}

\* generate_network line 36: generate_grid(equator_band_degrees, max_distance)
GenerateGrid(equator_band_degrees, max_distance) ==
    /\ query = NoQuery
    /\ query' = [kind |-> "generate_grid",
                 equator_band_degrees |-> equator_band_degrees,
                 max_distance |-> max_distance,
                 result |-> generate_grid(equator_band_degrees, max_distance)]
    /\ UNCHANGED <<nodes, connections, lastOp, gen>>

NextCandidates ==
    \E equator_band_degrees \in GridBands, max_distance \in GridMaxDistances :
        GenerateGrid(equator_band_degrees, max_distance)

SpecCandidates == Init /\ [][NextCandidates]_vars

\* the latitudes of the candidates are within the band
LatitudesInBand(q) ==
    \A k \in DOMAIN q.result :
        /\ -q.equator_band_degrees <= q.result[k].latitude
        /\ q.result[k].latitude <= q.equator_band_degrees

\* C28 as stated: candidate grid range: for positive integers max_distance
\* and equator_band_degrees generate_grid returns, and every candidate it
\* returns has its latitude in [-band, +band] and its longitude in
\* [-180, 180): the half-step offset of a row never yields a candidate at
\* longitude 180 or beyond.
C28_GridRange ==
    query.kind = "generate_grid"
        => /\ LatitudesInBand(query)
           /\ \A k \in DOMAIN query.result :
                  /\ -180 <= query.result[k].longitude
                  /\ query.result[k].longitude < 180

\* the range the code keeps: the longitudes are in [-180, 180], 180 included
C28_GridRangeClosed ==
    query.kind = "generate_grid"
        => /\ LatitudesInBand(query)
           /\ query.result # <<>>
           /\ \A k \in DOMAIN query.result :
                  /\ -180 <= query.result[k].longitude
                  /\ query.result[k].longitude <= 180

----------------------------------------------------------------------------
(* generate_path_with_mild_vertical_bias (generate_network.py 62-129) for  *)
(* every draw of the walk: the points are planar, and nothing but the      *)
(* path is made of them                                                    *)

WalkMaxDistances == {100, 200, 600}

\* line 129: the path is returned
ReturnPath ==
    /\ gen.pc = "close"
    /\ ~FarFromEnd(gen.path[Len(gen.path)], gen.max_distance)
    /\ gen' = [gen EXCEPT !.pc = "walked"]
    /\ UNCHANGED <<nodes, connections, lastOp, query>>

NextWalk ==
    \/ \E max_distance \in WalkMaxDistances : GenerateNetwork(0, 0, max_distance, 1)
    \/ \E direction \in AllDirections : WalkStep(direction)
    \/ CloseStep
    \/ ReturnPath

SpecWalk == Init /\ [][NextWalk]_vars

\* the place in the path of the point the walk stopped at: the first one with
\* x at the threshold or beyond
StopIndex(path) ==
    CHOOSE i \in DOMAIN path :
        /\ path[i][1] >= threshold
        /\ \A j \in 1..(i - 1) : path[j][1] < threshold

\* C25 as stated: loop closing terminates at the endpoint: for a positive
\* max_distance and every point the walk can stop at, the loop closing never
\* oscillates, that is, it never comes back to a point it has been at (from
\* which it would repeat itself for ever), and the path it returns ends
\* within the planar distance max_distance of (360, 0).
C25_ClosingEnds ==
    /\ (gen.pc = "close" /\ gen.max_distance > 0)
           => \A i, j \in StopIndex(gen.path)..Len(gen.path) :
                  i # j => gen.path[i] # gen.path[j]
    /\ gen.pc = "walked" => ~FarFromEnd(gen.path[Len(gen.path)], gen.max_distance)

\* the part that holds: a path that is returned ends within max_distance of
\* (360, 0)
C25_ReturnedInReach ==
    gen.pc = "walked" => ~FarFromEnd(gen.path[Len(gen.path)], gen.max_distance)

\* a path that needed a step of loop closing in y has been returned
C25_Returned ==
    /\ gen.pc = "walked"
    /\ StopIndex(gen.path) < Len(gen.path)
    /\ gen.path[Len(gen.path)][2] # gen.path[StopIndex(gen.path)][2]

----------------------------------------------------------------------------
(* find_path_to on a diamond: n3, its neighbours n4 and n2 at the same      *)
(* distance on either side, and n6 opposite n3, at the same distance from  *)
(* both                                                                    *)

\* the largest number of adjacency entries of a graph of the diamond
MaxTieEdges == 8

\* the order in which the nodes of the diamond are added
TieOrder == <<"n3", "n4", "n2", "n6">>

TieAdd(node) ==
    /\ Len(nodes) < Len(TieOrder)
    /\ SubSeq(TieOrder, 1, Len(nodes) + 1) = Append(nodes, node)
    /\ GraphAdd(node)

\* graphs of bidirectional edges between the nodes of the diamond, in every
\* order of the calls of connect_to, and the path queries on them
NextTie ==
    \/ \E node \in Members(TieOrder) : TieAdd(node)
    \/ \E self \in Members(TieOrder), other \in Members(TieOrder) :
           /\ self # other
           /\ IsMember(nodes, self) /\ IsMember(nodes, other)
           /\ GraphConnect(self, other, TRUE, MaxTieEdges)
    \/ \E self \in Members(TieOrder), target_node \in Members(TieOrder) :
           /\ IsMember(nodes, self) /\ IsMember(nodes, target_node)
           /\ FindPath(self, target_node, 1)

SpecTie == Init /\ [][NextTie]_vars

\* the entry a queue that breaks ties by insertion would take: of the entries
\* of the least distance the one pushed first
InsertionMinIndex(heap) ==
    CHOOSE i \in DOMAIN heap :
        \A j \in DOMAIN heap :
            \/ heap[j].distance > heap[i].distance
            \/ heap[j].distance = heap[i].distance /\ j >= i

\* the search of find_path_to with that queue
RECURSIVE InsertionOrderLoop(_, _, _, _, _)
InsertionOrderLoop(conns, st, target_node, speed, budget) ==
    IF st.status # "running"
    THEN st
    ELSE IF st.unvisited = <<>>
    THEN [st EXCEPT !.status = "none"]
    ELSE IF budget = 0
    THEN [st EXCEPT !.status = "diverged"]
    ELSE LET i == InsertionMinIndex(st.unvisited)
             current == st.unvisited[i]
             popped == [st EXCEPT !.unvisited = RemoveAt(@, i), !.pops = @ + 1]
         IN  IF current.id \in st.visited
             THEN InsertionOrderLoop(conns, popped, target_node, speed, budget - 1)
             ELSE LET marked == [popped EXCEPT !.visited = @ \cup {current.id}]
                  IN  IF NodeEq(current.node, target_node)
                      THEN [marked EXCEPT
                               !.status = "path",
                               !.path = ReconstructPath(marked.previous,
                                                        current.node, <<>>),
                               !.cost = current.distance]
                      ELSE InsertionOrderLoop(conns,
                               FindPathNeighbors(marked, current.node, current.distance,
                                                 get_connected_nodes(conns, current.node),
                                                 speed),
                               target_node, speed, budget - 1)

InsertionOrderPath(conns, self, target_node, speed) ==
    IF NodeEq(self, target_node)
    THEN [status |-> "path", path |-> <<self>>, cost |-> 0, pops |-> 0, examined |-> 0]
    ELSE PathResult(InsertionOrderLoop(conns, SearchStart(self), target_node, speed,
                                       LoopBudget(conns)))

\* C29 as stated: Dijkstra tie-break: frontier entries of the same cumulative
\* travel time are expanded in the order in which they were inserted, so
\* find_path_to returns, among the paths of equal cost, the one that a search
\* with a queue breaking ties by insertion returns, whatever the ids of the
\* nodes are.
C29_TieBreak ==
    query.kind = "find_path_to"
        => \E r \in {InsertionOrderPath(connections, query.self, query.target,
                                        query.speed)} :
               /\ query.result.status = r.status
               /\ query.result.path = r.path
               /\ query.result.cost = r.cost

\* what holds: the result is that of the search by insertion order in its
\* status and its cost, that is, a path of the least cost
C29_SameCost ==
    query.kind = "find_path_to"
        => \E r \in {InsertionOrderPath(connections, query.self, query.target,
                                        query.speed)} :
               /\ query.result.status = r.status
               /\ query.result.cost = r.cost
====
